---- MODULE Spec2Model ----
(***************************************************************************)
(* Study-plan generation pipeline of PreMed-Pal (server/file-upload):      *)
(* generateStudyPlan, extractKeywords, generateTopicsFromKeywords and the  *)
(* inline fallback composer.  A JavaScript string is a sequence of         *)
(* one-character strings; Chars turns a literal into that form.            *)
(***************************************************************************)
EXTENDS Integers, Sequences, FiniteSets, TLC

VARIABLES
    fileContent,   \* text of the uploaded file (sequence of characters)
    fnpc,          \* position of the pure-function harness
    keywords,      \* result of extractKeywords(fileContent)
    topics,        \* result of generateTopicsFromKeywords(keywords)
    fileOk,        \* whether fs.readFileSync succeeds on the path
    pc,            \* position of generateStudyPlan: start, awaiting, returned, thrown
    sent,          \* contentSummary embedded in the request
    remote,        \* how the pending axios.post settles
    outcome,       \* none, Remote, Fallback
    result,        \* the serialized document generateStudyPlan returned
    references,    \* chapters, pages and studyReferences of the fallback path
    questions,     \* a call of generateQuizQuestions: its arguments and its result
    courses,            \* MemStorage.courses: id -> course
    materials,          \* MemStorage.materials: id -> material
    studyPlans,         \* MemStorage.studyPlans: id -> study plan
    courseIdCounter,    \* MemStorage.courseIdCounter
    materialIdCounter,  \* MemStorage.materialIdCounter
    studyPlanIdCounter, \* MemStorage.studyPlanIdCounter
    files,              \* paths present in the upload directory
    uploadCounter,      \* number of files multer has stored (each gets a fresh name)
    uploads,            \* upload requests suspended at await generateStudyPlan
    last,               \* the latest handler step: route, requester, status, body
    requests            \* number of handler steps and connection events so far

apiVars == <<courses, materials, studyPlans, courseIdCounter, materialIdCounter,
             studyPlanIdCounter, files, uploadCounter, uploads, last, requests>>

planVars == <<fileContent, fnpc, keywords, topics, fileOk, pc, sent, remote, outcome, result,
              references, questions>>

vars == <<planVars, apiVars>>

-----------------------------------------------------------------------------
(* Strings *)

Chars(s) == [i \in 1..Len(s) |-> SubSeq(s, i, i)]

Range(f) == {f[i] : i \in DOMAIN f}

Min(a, b) == IF a < b THEN a ELSE b

UpperChars == Chars("ABCDEFGHIJKLMNOPQRSTUVWXYZ")
LowerChars == Chars("abcdefghijklmnopqrstuvwxyz")
DigitChars == Chars("0123456789")

\* \d
IsDigit(c) == c \in Range(DigitChars)

\* \w : [A-Za-z0-9_]
IsWordChar(c) == c \in Range(UpperChars) \cup Range(LowerChars) \cup Range(DigitChars) \cup {"_"}

\* \s
IsSpace(c) == c \in {" ", "\t", "\n", "\r"}

toLowerCaseChar(c) ==
    IF c \in Range(UpperChars)
    THEN LowerChars[CHOOSE i \in DOMAIN UpperChars : UpperChars[i] = c]
    ELSE c

toUpperCaseChar(c) ==
    IF c \in Range(LowerChars)
    THEN UpperChars[CHOOSE i \in DOMAIN LowerChars : LowerChars[i] = c]
    ELSE c

\* String.prototype.toLowerCase
toLowerCase(s) == [i \in 1..Len(s) |-> toLowerCaseChar(s[i])]

\* s.replace(/[^\w\s]/g, '')
stripNonWord(s) == SelectSeq(s, LAMBDA c : IsWordChar(c) \/ IsSpace(c))

\* the k-th smallest element of a finite set of integers
nth(S, k) == CHOOSE x \in S : Cardinality({y \in S : y < x}) = k - 1

\* the elements of a finite set of integers in increasing order
ascending(S) == [k \in 1..Cardinality(S) |-> nth(S, k)]

\* s.split(/\s+/): the pieces between maximal whitespace runs; a leading or
\* trailing run leaves an empty piece, and "" splits into [""].
splitWs(s) ==
    LET starts == {i \in 1..Len(s) : ~IsSpace(s[i]) /\ (i = 1 \/ IsSpace(s[i - 1]))}
        ends == {i \in 1..Len(s) : ~IsSpace(s[i]) /\ (i = Len(s) \/ IsSpace(s[i + 1]))}
        from == ascending(starts)
        to == ascending(ends)
    IN  (IF Len(s) = 0 \/ IsSpace(s[1]) THEN << <<>> >> ELSE <<>>)
        \o [k \in 1..Len(from) |-> SubSeq(s, from[k], to[k])]
        \o (IF Len(s) > 0 /\ IsSpace(s[Len(s)]) THEN << <<>> >> ELSE <<>>)

\* Faulty variant of unique: the words are not deduplicated
uniqueKeepsDuplicates(xs) == xs

\* Array.from(new Set(xs)): first occurrences, in insertion order
unique(xs) ==
    LET firsts == ascending({i \in 1..Len(xs) : \A j \in 1..(i - 1) : xs[j] # xs[i]})
    IN  [k \in 1..Len(firsts) |-> xs[firsts[k]]]

\* Array.prototype.slice(from, to) with 0 <= from <= to (0-based, to exclusive)
slice(xs, from, to) == SubSeq(xs, from + 1, Min(to, Len(xs)))

\* Array.prototype.join(sep)
RECURSIVE joinFrom(_, _, _)
joinFrom(xs, sep, i) ==
    IF i > Len(xs) THEN <<>>
    ELSE IF i = Len(xs) THEN xs[i]
    ELSE xs[i] \o sep \o joinFrom(xs, sep, i + 1)

join(xs, sep) == joinFrom(xs, sep, 1)

\* capitalize: str.charAt(0).toUpperCase() + str.slice(1)
capitalize(str) ==
    IF Len(str) = 0 THEN <<>>
    ELSE <<toUpperCaseChar(str[1])>> \o Tail(str)

-----------------------------------------------------------------------------
(* extractKeywords *)

MinWordLength == 4
MaxKeywords == 10

\* Faulty variant of longWords: the comparison is >= instead of >
longWordsAtLeast(words) == SelectSeq(words, LAMBDA w : Len(w) >= MinWordLength)

\* .filter(word => word.length > 4)
longWords(words) == SelectSeq(words, LAMBDA w : Len(w) > MinWordLength)

\* Faulty variant of extractKeywords: the length filter runs on the raw
\* tokens, before the non-word characters are removed
extractKeywordsStripLast(text) ==
    LET raw == SelectSeq(splitWs(toLowerCase(text)), LAMBDA w : Len(w) > MinWordLength)
        words == [i \in 1..Len(raw) |-> stripNonWord(raw[i])]
    IN  SubSeq(unique(words), 1, Min(MaxKeywords, Len(unique(words))))

extractKeywords(text) ==
    LET words == longWords(splitWs(stripNonWord(toLowerCase(text))))
        uniqueWords == unique(words)
    IN  slice(uniqueWords, 0, MaxKeywords)

-----------------------------------------------------------------------------
(* generateTopicsFromKeywords *)

Topic(n, d, r) == [name |-> n, description |-> d, resources |-> r]

genericTopics ==
    << Topic(Chars("Understanding Core Concepts"),
             Chars("Master the fundamental principles in your course material"),
             <<Chars("Review your course notes"), Chars("Create a concept map")>>),
       Topic(Chars("Applying Theory to Practice"),
             Chars("Learn how to apply theoretical knowledge to practical scenarios"),
             <<Chars("Work through practice problems"), Chars("Find real-world examples")>>),
       Topic(Chars("Advanced Topic Exploration"),
             Chars("Dive deeper into complex topics from your materials"),
             <<Chars("Research additional resources"), Chars("Form a study group")>>),
       Topic(Chars("Review and Self-Assessment"),
             Chars("Test your understanding and identify areas for improvement"),
             <<Chars("Create practice tests"), Chars("Review difficult concepts")>>) >>

keywordTopic1(kw) ==
    Topic(Chars("Understanding ") \o capitalize(kw[1]) \o Chars(" Concepts"),
          Chars("Master the fundamental principles of ") \o kw[1] \o Chars(" and related topics"),
          << Chars("Study ") \o capitalize(kw[1]) \o Chars(" in detail"),
             Chars("Create flashcards for ") \o capitalize(kw[1]) \o Chars(" terminology") >>)

\* Faulty variant of keywordTopic2: the first keyword is used again
keywordTopic2UsesFirst(kw) ==
    IF Len(kw) > 1
    THEN Topic(capitalize(kw[1]) \o Chars(" Applications"),
               Chars("Learn how ") \o kw[1] \o Chars(" applies to real-world scenarios"),
               << Chars("Practice ") \o kw[1] \o Chars(" problems"),
                  Chars("Find examples of ") \o kw[1] \o Chars(" in your field") >>)
    ELSE Topic(Chars("Practical Applications"),
               Chars("Apply concepts to practical examples"),
               <<Chars("Practice with examples"), Chars("Find real-world applications")>>)

keywordTopic2(kw) ==
    IF Len(kw) > 1
    THEN Topic(capitalize(kw[2]) \o Chars(" Applications"),
               Chars("Learn how ") \o kw[2] \o Chars(" applies to real-world scenarios"),
               << Chars("Practice ") \o kw[2] \o Chars(" problems"),
                  Chars("Find examples of ") \o kw[2] \o Chars(" in your field") >>)
    ELSE Topic(Chars("Practical Applications"),
               Chars("Apply concepts to practical examples"),
               <<Chars("Practice with examples"), Chars("Find real-world applications")>>)

keywordTopic3(kw) ==
    IF Len(kw) > 2
    THEN Topic(Chars("Advanced ") \o capitalize(kw[3]),
               Chars("Explore complex aspects of ") \o kw[3],
               << Chars("Research ") \o kw[3] \o Chars(" further"),
                  Chars("Join discussions about ") \o kw[3] >>)
    ELSE Topic(Chars("Advanced Topics"),
               Chars("Dive deeper into advanced material"),
               <<Chars("Research advanced topics"), Chars("Join discussions with peers")>>)

keywordTopic4(kw) ==
    Topic(Chars("Review and Assessment"),
          Chars("Test your understanding of ")
              \o join([i \in 1..Len(slice(kw, 0, 3)) |-> capitalize(kw[i])], Chars(", "))
              \o Chars(" and other key topics"),
          <<Chars("Create practice quizzes"), Chars("Summarize key points from your materials")>>)

\* Faulty variant of generateTopicsFromKeywords: a topic is built only for
\* the keywords that exist
generateTopicsOnlyForKeywords(kw) ==
    IF Len(kw) = 0 THEN genericTopics
    ELSE <<keywordTopic1(kw)>>
         \o (IF Len(kw) > 1 THEN <<keywordTopic2(kw)>> ELSE <<>>)
         \o (IF Len(kw) > 2 THEN <<keywordTopic3(kw)>> ELSE <<>>)
         \o <<keywordTopic4(kw)>>

generateTopicsFromKeywords(kw) ==
    IF Len(kw) = 0 THEN genericTopics
    ELSE <<keywordTopic1(kw), keywordTopic2(kw), keywordTopic3(kw), keywordTopic4(kw)>>

-----------------------------------------------------------------------------
(* Reference extraction: fileContent.match(/chapter\s+(\d+)/gi) and           *)
(* fileContent.match(/page\s+(\d+)/gi)                                        *)

\* Faulty variant of literalAt: the i flag is missing
literalAtCaseSensitive(s, i, word) ==
    /\ i + Len(word) - 1 <= Len(s)
    /\ \A k \in 1..Len(word) : s[i + k - 1] = word[k]

\* whether the literal `word` matches case-insensitively at position i of s
literalAt(s, i, word) ==
    /\ i + Len(word) - 1 <= Len(s)
    /\ \A k \in 1..Len(word) : toLowerCaseChar(s[i + k - 1]) = word[k]

\* end of the maximal whitespace run starting at i (i - 1 when empty)
spaceRunEnd(s, i) ==
    LET stops == {j \in i..Len(s) : ~IsSpace(s[j])}
    IN  IF stops = {} THEN Len(s) ELSE nth(stops, 1) - 1

\* end of the maximal digit run starting at i (i - 1 when empty)
digitRunEnd(s, i) ==
    LET stops == {j \in i..Len(s) : ~IsDigit(s[j])}
    IN  IF stops = {} THEN Len(s) ELSE nth(stops, 1) - 1

\* the end of a match of /word\s+\d+/i starting at i, or 0 when there is none
matchEnd(s, i, word) ==
    IF ~literalAt(s, i, word) THEN 0
    ELSE LET ws == spaceRunEnd(s, i + Len(word))
         IN  IF ws < i + Len(word) THEN 0
             ELSE LET ds == digitRunEnd(s, ws + 1)
                  IN  IF ds < ws + 1 THEN 0 ELSE ds

\* String.prototype.match with the g flag: every match, left to right.  A
\* match is the word, whitespace and digits, so no match starts inside another
\* and resuming after the previous match skips none.
matchAll(s, word) ==
    LET at == ascending({i \in 1..Len(s) : matchEnd(s, i, word) > 0})
    IN  [k \in 1..Len(at) |-> SubSeq(s, at[k], matchEnd(s, at[k], word))]

\* match.replace(/word\s+/i, ''): the first occurrence of the word followed by
\* whitespace is removed
removeFirstWordWs(m, word) ==
    LET hits == {i \in 1..Len(m) :
                    literalAt(m, i, word) /\ spaceRunEnd(m, i + Len(word)) >= i + Len(word)}
    IN  IF hits = {} THEN m
        ELSE LET i == nth(hits, 1)
             IN  SubSeq(m, 1, i - 1) \o SubSeq(m, spaceRunEnd(m, i + Len(word)) + 1, Len(m))

chaptersOf(text) ==
    LET chapterMatches == matchAll(text, Chars("chapter"))
    IN  [i \in 1..Len(chapterMatches) |->
            Chars("Chapter ") \o removeFirstWordWs(chapterMatches[i], Chars("chapter"))]

pagesOf(text) ==
    LET pageMatches == matchAll(text, Chars("page"))
    IN  [i \in 1..Len(pageMatches) |->
            Chars("Page ") \o removeFirstWordWs(pageMatches[i], Chars("page"))]

studyReferencesOf(text, kw) ==
    LET first3 == slice(kw, 0, 3)
    IN  unique(chaptersOf(text) \o pagesOf(text)
               \o [i \in 1..Len(first3) |->
                       Chars("Study ") \o capitalize(first3[i]) \o Chars(" concept")])

defaultReferences ==
    <<Chars("Review course materials"), Chars("Create concept map"),
      Chars("Practice sample questions")>>

\* a || b on strings: the empty string is falsy
orElse(a, b) == IF Len(a) > 0 THEN a ELSE b

\* Faulty variant of personalizeResources: no round-robin, the default list is
\* used where the references run out
personalizeResourcesNoWrap(tps, studyReferences) ==
    [t \in 1..Len(tps) |->
        [tps[t] EXCEPT !.resources =
            IF Len(studyReferences) > 0
            THEN [i \in 1..Len(tps[t].resources) |->
                     orElse(IF i <= Len(studyReferences) THEN studyReferences[i] ELSE <<>>,
                            defaultReferences[((i - 1) % Len(defaultReferences)) + 1])]
            ELSE defaultReferences]]

\* topics.forEach(topic => { topic.resources = ... })
personalizeResources(tps, studyReferences) ==
    [t \in 1..Len(tps) |->
        [tps[t] EXCEPT !.resources =
            IF Len(studyReferences) > 0
            THEN [i \in 1..Len(tps[t].resources) |->
                     orElse(studyReferences[((i - 1) % Len(studyReferences)) + 1],
                            defaultReferences[((i - 1) % Len(defaultReferences)) + 1])]
            ELSE defaultReferences]]

-----------------------------------------------------------------------------
(* Fallback composer: video links, quiz questions, the document *)

\* generateYouTubeRecommendations(topic, subtopics)
generateYouTubeRecommendations(topic, subtopics) ==
    << [title |-> Chars("Introduction to ") \o capitalize(topic),
        url |-> Chars("https://www.youtube.com/results?search_query=introduction+to+")
                    \o topic \o Chars("+tutorial"),
        description |-> Chars("A comprehensive introduction to ") \o topic
                            \o Chars(" fundamentals")],
       IF Len(subtopics) > 0
       THEN [title |-> capitalize(subtopics[1]) \o Chars(" explained"),
             url |-> Chars("https://www.youtube.com/results?search_query=")
                         \o subtopics[1] \o Chars("+explained+") \o topic,
             description |-> Chars("Detailed explanation of ") \o subtopics[1]
                                 \o Chars(" in ") \o topic]
       ELSE [title |-> Chars("Advanced ") \o capitalize(topic),
             url |-> Chars("https://www.youtube.com/results?search_query=advanced+")
                         \o topic \o Chars("+tutorial"),
             description |-> Chars("Advanced concepts in ") \o topic] >>

Question(q, opts, ca) == [question |-> q, options |-> opts, correctAnswer |-> ca]

\* Faulty variant of mainPurposeQuestion: option 0 names the related term only
\* when there are two of them
mainPurposeQuestionNeedsTwo(topic, relatedTerms) ==
    Question(Chars("Which of the following best describes the main purpose of ")
                 \o topic \o Chars("?"),
             << Chars("To analyze and understand ")
                    \o (IF Len(relatedTerms) > 1 THEN relatedTerms[1]
                                                 ELSE Chars("core concepts")),
                Chars("To apply ") \o topic \o Chars(" in practical scenarios"),
                Chars("To develop new theories related to ") \o topic,
                Chars("To compare ") \o topic \o Chars(" with other similar topics") >>,
             0)

\* the basic question about the topic
mainPurposeQuestion(topic, relatedTerms) ==
    Question(Chars("Which of the following best describes the main purpose of ")
                 \o topic \o Chars("?"),
             << Chars("To analyze and understand ")
                    \o (IF Len(relatedTerms) > 0 THEN relatedTerms[1]
                                                 ELSE Chars("core concepts")),
                Chars("To apply ") \o topic \o Chars(" in practical scenarios"),
                Chars("To develop new theories related to ") \o topic,
                Chars("To compare ") \o topic \o Chars(" with other similar topics") >>,
             0)

\* the question using two related terms
relationshipQuestion(topic, relatedTerms) ==
    Question(Chars("How does ") \o relatedTerms[1] \o Chars(" relate to ")
                 \o relatedTerms[2] \o Chars(" in the context of ") \o topic
                 \o Chars("?"),
             << relatedTerms[1] \o Chars(" is a subset of ") \o relatedTerms[2],
                relatedTerms[1] \o Chars(" and ") \o relatedTerms[2]
                    \o Chars(" are completely unrelated"),
                relatedTerms[1] \o Chars(" builds upon concepts from ")
                    \o relatedTerms[2],
                relatedTerms[1] \o Chars(" contradicts ") \o relatedTerms[2] >>,
             2)

\* the question asked when there are fewer than two related terms
notAPrincipleQuestion(topic) ==
    Question(Chars("Which of the following is NOT a key principle of ")
                 \o topic \o Chars("?"),
             << Chars("Understanding theoretical foundations"),
                Chars("Applying practical techniques"),
                Chars("Ignoring related fields of study"),
                Chars("Analyzing real-world examples") >>,
             2)

\* the application question
applicationQuestion(topic) ==
    Question(Chars("How would you apply ") \o topic
                 \o Chars(" knowledge to solve a real-world problem?"),
             << Chars("By focusing only on theoretical aspects"),
                Chars("By using established frameworks and methodologies"),
                Chars("By ignoring previous research on the topic"),
                Chars("By avoiding collaboration with experts in the field") >>,
             1)

\* Faulty variant of generateQuizQuestions: the else branch is missing
generateQuizQuestionsNoElse(topic, relatedTerms) ==
    <<mainPurposeQuestion(topic, relatedTerms)>>
    \o (IF Len(relatedTerms) > 1 THEN <<relationshipQuestion(topic, relatedTerms)>> ELSE <<>>)
    \o <<applicationQuestion(topic)>>

\* generateQuizQuestions(topic, relatedTerms)
generateQuizQuestions(topic, relatedTerms) ==
    <<mainPurposeQuestion(topic, relatedTerms)>>
    \o (IF Len(relatedTerms) > 1 THEN <<relationshipQuestion(topic, relatedTerms)>>
                                  ELSE <<notAPrincipleQuestion(topic)>>)
    \o <<applicationQuestion(topic)>>

\* s.split(' ')[0]
firstPiece(s) ==
    LET spaces == {i \in 1..Len(s) : s[i] = " "}
    IN  IF spaces = {} THEN s ELSE SubSeq(s, 1, nth(spaces, 1) - 1)

\* keywords[index] || topic.name.split(' ')[0].toLowerCase()
videoTopic(kw, index, topic) ==
    IF index + 1 <= Len(kw) /\ Len(kw[index + 1]) > 0
    THEN kw[index + 1]
    ELSE toLowerCase(firstPiece(topic.name))

Week1BaseHours == 3
Week2BaseHours == 4

\* estimatedHours: 3 + index and 4 + index in server/file-upload.ts
AimlapiWeek1BaseHours == 3
AimlapiWeek2BaseHours == 4

\* Faulty variant of weekTopics: the hours count the topic from 1
weekTopicsOneBased(tps, kw, from, to, baseHours, kwOffset, subtopics) ==
    LET part == slice(tps, from, to)
    IN  [n \in 1..Len(part) |->
            [name |-> part[n].name,
             description |-> part[n].description,
             estimatedHours |-> baseHours + n,
             resources |-> part[n].resources,
             videoRecommendations |->
                 generateYouTubeRecommendations(
                     videoTopic(kw, (n - 1) + kwOffset, part[n]), subtopics)]]

\* topics.slice(from, to).map((topic, index) => ({ ... }))
weekTopics(tps, kw, from, to, baseHours, kwOffset, subtopics) ==
    LET part == slice(tps, from, to)
    IN  [n \in 1..Len(part) |->
            [name |-> part[n].name,
             description |-> part[n].description,
             estimatedHours |-> baseHours + (n - 1),
             resources |-> part[n].resources,
             videoRecommendations |->
                 generateYouTubeRecommendations(
                     videoTopic(kw, (n - 1) + kwOffset, part[n]), subtopics)]]

\* the object handed to JSON.stringify on the fallback path, built from the
\* keywords and the personalized topics
fallbackDocument(kw, tps) ==
        [title |-> Chars("Personalized Study Plan"),
         description |->
             Chars("This study plan is tailored based on your uploaded course materials."),
         weeks |->
             << [weekNumber |-> 1,
                 topics |-> weekTopics(tps, kw, 0, 2, Week1BaseHours, 0, slice(kw, 2, 4))],
                [weekNumber |-> 2,
                 topics |-> weekTopics(tps, kw, 2, 4, Week2BaseHours, 2, slice(kw, 0, 2))] >>,
         quiz |->
             [title |-> Chars("Knowledge Check Quiz"),
              description |->
                  Chars("Test your understanding of the key concepts from your course materials."),
              questions |->
                  generateQuizQuestions(
                      IF Len(kw) > 0 THEN kw[1] ELSE Chars("course concepts"),
                      slice(kw, 1, 3))
                  \o generateQuizQuestions(
                      IF Len(kw) > 3 THEN kw[4] ELSE Chars("subject matter"),
                      slice(kw, 0, 2))]]

\* the fallback path from the file text to the object handed to JSON.stringify
composeFallbackPlan(text) ==
    LET kw == extractKeywords(text)
        tps == personalizeResources(generateTopicsFromKeywords(kw),
                                    studyReferencesOf(text, kw))
    IN  fallbackDocument(kw, tps)

\* capitalize(xs[i]) reads charAt of undefined when xs has no element i
\* (0-based): a TypeError
capitalizeThrows(xs, i) == i >= Len(xs)

\* Faulty variant of generateTopicsThrows: the second topic is guarded by
\* keywords.length > 0
generateTopicsThrowsLooseGuard(kw) ==
    \/ Len(kw) # 0 /\ capitalizeThrows(kw, 0)
    \/ Len(kw) > 0 /\ capitalizeThrows(kw, 1)
    \/ Len(kw) > 2 /\ capitalizeThrows(kw, 2)

\* whether generateTopicsFromKeywords throws: each capitalize(keywords[i]) it
\* evaluates, under the condition that guards it
generateTopicsThrows(kw) ==
    \/ Len(kw) # 0 /\ capitalizeThrows(kw, 0)
    \/ Len(kw) > 1 /\ capitalizeThrows(kw, 1)
    \/ Len(kw) > 2 /\ capitalizeThrows(kw, 2)

\* whether generateYouTubeRecommendations throws: capitalize(subtopics[0]) is
\* evaluated when subtopics.length > 0; its topic argument is always a string
recommendationsThrow(subtopics) == Len(subtopics) > 0 /\ capitalizeThrows(subtopics, 0)

\* whether building the returned object throws
documentThrows(kw) ==
    \/ recommendationsThrow(slice(kw, 2, 4))
    \/ recommendationsThrow(slice(kw, 0, 2))

\* whether the fallback path throws into the outer catch
fallbackThrows(kw) == generateTopicsThrows(kw) \/ documentThrows(kw)

-----------------------------------------------------------------------------
(* JavaScript values and JSON.stringify.  A value is [type, v]; values of   *)
(* one type have a v of one shape: a string's v is its characters, an       *)
(* array's v its elements, an object's v its <<key, value>> members in      *)
(* insertion order.                                                          *)

Undefined == [type |-> "undefined", v |-> 0]
JNull == [type |-> "null", v |-> 0]
JStr(chars) == [type |-> "string", v |-> chars]
JNum(n) == [type |-> "number", v |-> n]
JArr(elems) == [type |-> "array", v |-> elems]
JObj(members) == [type |-> "object", v |-> members]

\* ToBoolean
truthy(x) ==
    CASE x.type \in {"undefined", "null"} -> FALSE
      [] x.type = "string" -> Len(x.v) > 0
      [] x.type = "number" -> x.v # 0
      [] OTHER -> TRUE

\* a || b
or(a, b) == IF truthy(a) THEN a ELSE b

\* obj.key: the member set last under that key; undefined when there is none
\* or when obj is a primitive
getMember(obj, key) ==
    IF obj.type # "object" THEN Undefined
    ELSE LET hits == {i \in DOMAIN obj.v : obj.v[i][1] = key}
         IN  IF hits = {} THEN Undefined
             ELSE obj.v[CHOOSE i \in hits : \A j \in hits : j <= i][2]

\* JSON.stringify(object): members whose value is undefined are left out
stringify(obj) == JObj(SelectSeq(obj.v, LAMBDA m : m[2].type # "undefined"))

jsStrings(xs) == JArr([i \in 1..Len(xs) |-> JStr(xs[i])])

jsVideo(vd) ==
    JObj(<< <<"title", JStr(vd.title)>>, <<"url", JStr(vd.url)>>,
            <<"description", JStr(vd.description)>> >>)

jsTopic(t) ==
    JObj(<< <<"name", JStr(t.name)>>,
            <<"description", JStr(t.description)>>,
            <<"estimatedHours", JNum(t.estimatedHours)>>,
            <<"resources", jsStrings(t.resources)>>,
            <<"videoRecommendations",
              JArr([i \in 1..Len(t.videoRecommendations) |->
                       jsVideo(t.videoRecommendations[i])])>> >>)

jsWeek(w) ==
    JObj(<< <<"weekNumber", JNum(w.weekNumber)>>,
            <<"topics", JArr([i \in 1..Len(w.topics) |-> jsTopic(w.topics[i])])>> >>)

jsQuestion(q) ==
    JObj(<< <<"question", JStr(q.question)>>,
            <<"options", jsStrings(q.options)>>,
            <<"correctAnswer", JNum(q.correctAnswer)>> >>)

\* the object literal of the fallback return statement
jsFallbackPlan(doc) ==
    JObj(<< <<"title", JStr(doc.title)>>,
            <<"description", JStr(doc.description)>>,
            <<"weeks", JArr([i \in 1..Len(doc.weeks) |-> jsWeek(doc.weeks[i])])>>,
            <<"quiz",
              JObj(<< <<"title", JStr(doc.quiz.title)>>,
                      <<"description", JStr(doc.quiz.description)>>,
                      <<"questions",
                        JArr([i \in 1..Len(doc.quiz.questions) |->
                                 jsQuestion(doc.quiz.questions[i])])>> >>)>> >>)

\* a TypeError thrown by the fallback path
TypeError == [type |-> "TypeError", v |-> 0]

\* what generateStudyPlan returns on the fallback path, or the error it throws
fallbackResult(text) ==
    IF fallbackThrows(extractKeywords(text)) THEN TypeError
    ELSE stringify(jsFallbackPlan(composeFallbackPlan(text)))

-----------------------------------------------------------------------------
(* The fallback path of generateStudyPlan in server/file-upload.ts (the     *)
(* aimlapi variant).  Its helpers extractKeywords, generateTopicsFromKeywords *)
(* and capitalize, and its reference and resource code, are the same text as *)
(* the ones modelled above.                                                  *)

\* Faulty variant of aimlapiWeekTopics: index taken as counting from 1
aimlapiWeekTopicsOneBased(tps, from, to, baseHours) ==
    LET part == slice(tps, from, to)
    IN  [n \in 1..Len(part) |->
            [name |-> part[n].name,
             description |-> part[n].description,
             estimatedHours |-> baseHours + n,
             resources |-> part[n].resources]]

\* topics.slice(from, to).map((topic, index) => ({ name, description,
\* estimatedHours, resources }))
aimlapiWeekTopics(tps, from, to, baseHours) ==
    LET part == slice(tps, from, to)
    IN  [n \in 1..Len(part) |->
            [name |-> part[n].name,
             description |-> part[n].description,
             estimatedHours |-> baseHours + (n - 1),
             resources |-> part[n].resources]]

\* the object handed to JSON.stringify: title, description and weeks only
aimlapiFallbackDocument(tps) ==
        [title |-> Chars("Personalized Study Plan"),
         description |->
             Chars("This study plan is tailored based on your uploaded course materials."),
         weeks |->
             << [weekNumber |-> 1,
                 topics |-> aimlapiWeekTopics(tps, 0, 2, AimlapiWeek1BaseHours)],
                [weekNumber |-> 2,
                 topics |-> aimlapiWeekTopics(tps, 2, 4, AimlapiWeek2BaseHours)] >>]

jsAimlapiTopic(t) ==
    JObj(<< <<"name", JStr(t.name)>>,
            <<"description", JStr(t.description)>>,
            <<"estimatedHours", JNum(t.estimatedHours)>>,
            <<"resources", jsStrings(t.resources)>> >>)

jsAimlapiWeek(w) ==
    JObj(<< <<"weekNumber", JNum(w.weekNumber)>>,
            <<"topics",
              JArr([i \in 1..Len(w.topics) |-> jsAimlapiTopic(w.topics[i])])>> >>)

\* the object literal of the fallback return statement
jsAimlapiFallbackPlan(doc) ==
    JObj(<< <<"title", JStr(doc.title)>>,
            <<"description", JStr(doc.description)>>,
            <<"weeks",
              JArr([i \in 1..Len(doc.weeks) |-> jsAimlapiWeek(doc.weeks[i])])>> >>)

\* what this generateStudyPlan returns on the fallback path, or the error it
\* throws
aimlapiFallbackResult(text) ==
    LET kw == extractKeywords(text)
    IN  IF generateTopicsThrows(kw) THEN TypeError
        ELSE stringify(jsAimlapiFallbackPlan(aimlapiFallbackDocument(
                 personalizeResources(generateTopicsFromKeywords(kw),
                                      studyReferencesOf(text, kw)))))

-----------------------------------------------------------------------------
(* generated_text: a sequence of tokens.  JSON.parse reads them.            *)

Tok(t) == [t |-> t, k |-> "", v |-> JNull]
Member(k, v) == [t |-> "member", k |-> k, v |-> v]
NumberTok(n) == [t |-> "number", k |-> "", v |-> JNum(n)]

Fence == <<Tok("fence")>>                      \* ```
FenceJson == <<Tok("fence"), Tok("json")>>     \* ```json

\* index of the first occurrence of pat in s at or after from; 0 when none
RECURSIVE indexOfFrom(_, _, _)
indexOfFrom(s, pat, from) ==
    IF from + Len(pat) - 1 > Len(s) THEN 0
    ELSE IF SubSeq(s, from, from + Len(pat) - 1) = pat THEN from
    ELSE indexOfFrom(s, pat, from + 1)

\* s.includes(pat)
includes(s, pat) == indexOfFrom(s, pat, 1) > 0

\* s.split(pat)[0]
splitHead(s, pat) ==
    LET i == indexOfFrom(s, pat, 1)
    IN  IF i = 0 THEN s ELSE SubSeq(s, 1, i - 1)

\* s.split(pat)[1], for s that includes pat
splitSecond(s, pat) ==
    LET i == indexOfFrom(s, pat, 1)
        rest == SubSeq(s, i + Len(pat), Len(s))
    IN  splitHead(rest, pat)

\* s.trim()
RECURSIVE trim(_)
trim(s) ==
    IF Len(s) > 0 /\ s[1].t = "ws" THEN trim(Tail(s))
    ELSE IF Len(s) > 0 /\ s[Len(s)].t = "ws" THEN trim(SubSeq(s, 1, Len(s) - 1))
    ELSE s

\* Faulty variant of stripFence: only a ```json fence is recognised
stripFenceJsonOnly(generatedText) ==
    IF includes(generatedText, FenceJson)
    THEN trim(splitHead(splitSecond(generatedText, FenceJson), Fence))
    ELSE generatedText

\* the text handed to JSON.parse: markdown code blocks removed if present
stripFence(generatedText) ==
    IF includes(generatedText, FenceJson)
    THEN trim(splitHead(splitSecond(generatedText, FenceJson), Fence))
    ELSE IF includes(generatedText, Fence)
         THEN trim(splitHead(splitSecond(generatedText, Fence), Fence))
         ELSE generatedText

SyntaxError == [type |-> "SyntaxError", v |-> 0]

\* JSON.parse: whitespace between tokens is insignificant; the text is null,
\* a number, or an object { member , member , ... }; anything else throws
JSONparse(jsonText) ==
    LET toks == SelectSeq(jsonText, LAMBDA tk : tk.t # "ws")
        n == Len(toks)
        inner == SubSeq(toks, 2, n - 1)
        membersOk ==
            \/ Len(inner) = 0
            \/ /\ Len(inner) % 2 = 1
               /\ \A i \in 1..Len(inner) :
                      inner[i].t = (IF i % 2 = 1 THEN "member" ELSE "comma")
    IN  IF n = 1 /\ toks[1].t = "null" THEN JNull
        ELSE IF n = 1 /\ toks[1].t = "number" THEN toks[1].v
        ELSE IF n >= 2 /\ toks[1].t = "lbrace" /\ toks[n].t = "rbrace" /\ membersOk
             THEN JObj([i \in 1..((Len(inner) + 1) \div 2) |->
                           <<inner[2 * i - 1].k, inner[2 * i - 1].v>>])
        ELSE SyntaxError

-----------------------------------------------------------------------------
(* generateStudyPlan after the axios.post promise has settled *)

SampleLength == 5000

\* fileContent.substring(0, 5000)
contentSummary(text) == SubSeq(text, 1, Min(SampleLength, Len(text)))

DefaultTitle == Chars("Personalized Chemistry Study Plan")
DefaultDescription ==
    Chars("This study plan was generated based on your chemistry materials.")

\* huggingFaceResponse.data && huggingFaceResponse.data.generated_text
hasGeneratedText(r) == r.kind = "response" /\ r.gen \in {"nonstring", "text"}

\* jsonText.includes is not a function: a TypeError, caught as apiError
includesThrows(r) == r.gen = "nonstring"

\* JSON.parse(jsonText) of the response, fences removed
parsedPlanOf(r) == JSONparse(stripFence(r.text))

\* Faulty variant of parseThrows: a SyntaxError is swallowed and the defaults
\* are returned
parseThrowsOnlyOnNull(parsedPlan) == parsedPlan.type = "null"

\* the inner try throws: JSON.parse throws a SyntaxError, or parsedPlan is
\* null and reading parsedPlan.title throws a TypeError
parseThrows(parsedPlan) == parsedPlan.type \in {"SyntaxError", "null"}

\* Faulty variant of studyPlanOf: weeks is copied without its default
studyPlanWithoutWeeksDefault(parsedPlan) ==
    JObj(<< <<"title", or(getMember(parsedPlan, "title"), JStr(DefaultTitle))>>,
            <<"description",
              or(getMember(parsedPlan, "description"), JStr(DefaultDescription))>>,
            <<"weeks", getMember(parsedPlan, "weeks")>>,
            <<"quiz", or(getMember(parsedPlan, "quiz"), Undefined)>> >>)

\* the studyPlan object literal built from parsedPlan
studyPlanOf(parsedPlan) ==
    JObj(<< <<"title", or(getMember(parsedPlan, "title"), JStr(DefaultTitle))>>,
            <<"description",
              or(getMember(parsedPlan, "description"), JStr(DefaultDescription))>>,
            <<"weeks", or(getMember(parsedPlan, "weeks"), JArr(<<>>))>>,
            <<"quiz", or(getMember(parsedPlan, "quiz"), Undefined)>> >>)

\* whether the settled request makes generateStudyPlan return from inside the try
returnsRemote(r) ==
    /\ hasGeneratedText(r)
    /\ ~includesThrows(r)
    /\ ~parseThrows(parsedPlanOf(r))

-----------------------------------------------------------------------------
(* Inputs *)

MaxFrags == 2        \* fragments per text, pure-function harness
MaxPipeFrags == 1    \* fragments per uploaded file, pipeline

ExampleText == Chars("chapter 3 organic chemistry reactions page 45 mechanisms")

Fragments ==
    { ExampleText,
      Chars("\nKinetics, THERMO-dynamics; entropy\tenthalpy equilibrium\ncatalysts"),
      Chars(" "),
      Chars("acid"),
      Chars("Acids"),
      Chars("don't"),
      Chars(" bases_2 buffers "),
      Chars("  Page\n12 "),
      Chars("CHAPTER  7.") }

RECURSIVE TextsUpTo(_)
TextsUpTo(n) ==
    IF n = 0 THEN {<<>>}
    ELSE LET prev == TextsUpTo(n - 1)
         IN  prev \cup {t \o f : t \in prev, f \in Fragments}

Texts == TextsUpTo(MaxFrags)
PipelineTexts == TextsUpTo(MaxPipeFrags)

\* member values a model may answer with
remoteTopic(resources) ==
    JObj(<< <<"name", JStr(Chars("Acid-Base Reactions"))>>,
            <<"description", JStr(Chars("Proton transfer."))>>,
            <<"estimatedHours", JNum(3)>>,
            <<"resources", JArr(resources)>> >>)

remoteWeeks(resources) ==
    JArr(<< JObj(<< <<"weekNumber", JNum(1)>>,
                    <<"topics", JArr(<<remoteTopic(resources)>>)>> >>) >>)

remoteQuiz(nOptions, answer) ==
    JObj(<< <<"title", JStr(Chars("Quiz"))>>,
            <<"description", JStr(Chars("Check"))>>,
            <<"questions",
              JArr(<< JObj(<< <<"question", JStr(Chars("pH of water?"))>>,
                              <<"options",
                                JArr([i \in 1..nOptions |-> JStr(<<DigitChars[i + 5]>>)])>>,
                              <<"correctAnswer", JNum(answer)>> >>) >>)>> >>)

TitleValues == {Undefined, JStr(Chars("X")), JStr(<<>>)}
DescriptionValues == {Undefined, JStr(Chars("D"))}
WeeksValues ==
    {Undefined, JNull, JArr(<<>>), JStr(Chars("two weeks")),
     remoteWeeks(<<JStr(Chars("Textbook"))>>), remoteWeeks(<<>>)}
QuizValues == {Undefined, JNull, remoteQuiz(4, 1), remoteQuiz(3, 1), remoteQuiz(4, 4)}

\* the members present, separated by commas
RECURSIVE commaSeparated(_)
commaSeparated(ms) ==
    IF Len(ms) = 0 THEN <<>>
    ELSE IF Len(ms) = 1 THEN <<ms[1]>>
    ELSE <<ms[1], Tok("comma")>> \o commaSeparated(Tail(ms))

objectText(t, d, w, q) ==
    LET all == <<Member("title", t), Member("description", d),
                 Member("weeks", w), Member("quiz", q)>>
        present == SelectSeq(all, LAMBDA m : m.v.type # "undefined")
    IN  <<Tok("lbrace")>> \o commaSeparated(present) \o <<Tok("rbrace")>>

RemoteBodies ==
    {objectText(t, d, w, Undefined) :
        t \in TitleValues, d \in DescriptionValues, w \in {Undefined, JArr(<<>>)}}
    \cup {objectText(JStr(Chars("X")), Undefined, w, q) : w \in WeeksValues, q \in QuizValues}
    \cup { <<Tok("null")>>,
           <<NumberTok(5)>>,
           <<Tok("lbrace"), Member("title", JStr(Chars("X")))>>,
           <<Tok("lbrace"), Member("title", JStr(Chars("X"))), Tok("comma"),
             Member("title", JStr(Chars("Y"))), Tok("rbrace")>>,
           <<Tok("prose")>>,
           <<>> }

Prefixes == { <<>>, <<Tok("prose"), Tok("ws")>> }
Opens ==
    { <<>>,
      FenceJson \o <<Tok("ws")>>,
      Fence \o <<Tok("ws")>>,
      Fence \o <<Tok("ws"), Tok("json"), Tok("ws")>> }
Closes ==
    { <<>>,
      <<Tok("ws")>> \o Fence,
      <<Tok("ws")>> \o Fence \o <<Tok("ws"), Tok("prose")>> }

RemoteTexts ==
    {pre \o open \o body \o close :
        pre \in Prefixes, open \in Opens, body \in RemoteBodies, close \in Closes}

Settled(kind, gen, text) == [kind |-> kind, gen |-> gen, text |-> text]

NoRemote == Settled("none", "none", <<>>)

NoReferences == [chapters |-> <<>>, pages |-> <<>>, studyReferences |-> <<>>]

\* arguments of generateQuizQuestions
QuizTopics == {Chars("kinetics"), Chars("course concepts")}
RelatedTermLists ==
    { <<>>, <<Chars("acids")>>, <<Chars("acids"), Chars("bases")>>,
      <<Chars("acids"), Chars("bases"), Chars("buffers")>> }

NoQuestions == [topic |-> <<>>, relatedTerms |-> <<>>, questions |-> <<>>]

RemoteBehaviours ==
    {Settled(k, "none", <<>>) : k \in {"error", "timeout", "silent"}}
    \cup {Settled("response", g, <<>>) : g \in {"nodata", "nofield", "empty", "nonstring"}}
    \cup {Settled("response", "text", t) : t \in RemoteTexts \ {<<>>}}

\* req.user.id of the two signed-in users; NoUser stands for a request without a session
Users == {1, 2}
NoUser == 0
Requesters == Users \cup {NoUser}

\* an empty Map, and an empty request body
EmptyMap == <<>>
EmptyBody == <<>>

\* no handler has run yet.  returned holds <<kind, key, courseId>> for every
\* record in the response body, courseId being the course the handler checked
NoResponse == [route |-> "none", user |-> NoUser, id |-> 0, status |-> 0, returned |-> {}]

\* new MemStorage(), an empty upload directory, no request in flight
ApiOff ==
    /\ courses = EmptyMap
    /\ materials = EmptyMap
    /\ studyPlans = EmptyMap
    /\ courseIdCounter = 1
    /\ materialIdCounter = 1
    /\ studyPlanIdCounter = 1
    /\ files = {}
    /\ uploadCounter = 0
    /\ uploads = {}
    /\ last = NoResponse
    /\ requests = 0

-----------------------------------------------------------------------------
(* The pure functions, applied to every text *)

FnInit ==
    /\ fileContent \in Texts
    /\ fnpc = "input"
    /\ keywords = <<>>
    /\ topics = <<>>
    /\ fileOk = TRUE
    /\ pc = "off"
    /\ sent = <<>>
    /\ remote = NoRemote
    /\ outcome = "none"
    /\ result = Undefined
    /\ references = NoReferences
    /\ questions = NoQuestions
    /\ ApiOff

CallExtractKeywords ==
    /\ fnpc = "input"
    /\ keywords' = extractKeywords(fileContent)
    /\ fnpc' = "keywords"
    /\ UNCHANGED <<fileContent, topics, fileOk, pc, sent, remote, outcome, result>>
    /\ UNCHANGED apiVars
    /\ UNCHANGED <<references, questions>>

CallGenerateTopics ==
    /\ fnpc = "keywords"
    /\ IF generateTopicsThrows(keywords)
       THEN fnpc' = "thrown" /\ UNCHANGED topics
       ELSE /\ topics' = generateTopicsFromKeywords(keywords)
            /\ fnpc' = "topics"
    /\ UNCHANGED <<fileContent, keywords, fileOk, pc, sent, remote, outcome, result>>
    /\ UNCHANGED apiVars
    /\ UNCHANGED <<references, questions>>

\* chapterMatches, chapters, pageMatches, pages, studyReferences
ExtractReferences ==
    /\ fnpc = "topics"
    /\ references' = [chapters |-> chaptersOf(fileContent),
                      pages |-> pagesOf(fileContent),
                      studyReferences |-> studyReferencesOf(fileContent, keywords)]
    /\ fnpc' = "references"
    /\ UNCHANGED <<fileContent, keywords, topics, fileOk, pc, sent, remote, outcome, result>>
    /\ UNCHANGED apiVars
    /\ UNCHANGED questions

\* topics.forEach(topic => { topic.resources = ... })
PersonalizeResources ==
    /\ fnpc = "references"
    /\ topics' = personalizeResources(topics, references.studyReferences)
    /\ fnpc' = "resources"
    /\ UNCHANGED <<fileContent, keywords, fileOk, pc, sent, remote, outcome, result>>
    /\ UNCHANGED apiVars
    /\ UNCHANGED <<references, questions>>

\* return JSON.stringify({ title, description, weeks, quiz })
ComposeDocument ==
    /\ fnpc = "resources"
    /\ IF documentThrows(keywords)
       THEN fnpc' = "thrown" /\ UNCHANGED result
       ELSE /\ result' = stringify(jsFallbackPlan(fallbackDocument(keywords, topics)))
            /\ fnpc' = "plan"
    /\ UNCHANGED <<fileContent, keywords, topics, fileOk, pc, sent, remote, outcome>>
    /\ UNCHANGED apiVars
    /\ UNCHANGED <<references, questions>>

\* generateQuizQuestions(topic, relatedTerms), called on its own
CallGenerateQuizQuestions ==
    /\ fnpc = "input"
    /\ \E topic \in QuizTopics, relatedTerms \in RelatedTermLists :
           questions' = [topic |-> topic, relatedTerms |-> relatedTerms,
                         questions |-> generateQuizQuestions(topic, relatedTerms)]
    /\ fnpc' = "quiz"
    /\ UNCHANGED <<fileContent, keywords, topics, fileOk, pc, sent, remote, outcome, result>>
    /\ UNCHANGED apiVars
    /\ UNCHANGED references

FnNext ==
    \/ CallExtractKeywords
    \/ CallGenerateTopics
    \/ ExtractReferences
    \/ PersonalizeResources
    \/ ComposeDocument
    \/ CallGenerateQuizQuestions

FnSpec == FnInit /\ [][FnNext]_vars

-----------------------------------------------------------------------------
(* generateStudyPlan(filePath) *)

Init ==
    /\ fileContent \in PipelineTexts
    /\ fileOk \in BOOLEAN
    /\ pc = "start"
    /\ sent = <<>>
    /\ remote = NoRemote
    /\ outcome = "none"
    /\ result = Undefined
    /\ references = NoReferences
    /\ questions = NoQuestions
    /\ ApiOff
    /\ fnpc = "off"
    /\ keywords = <<>>
    /\ topics = <<>>

\* fs.readFileSync throws; the outer catch rethrows "Failed to generate study plan"
ReadFileFails ==
    /\ pc = "start"
    /\ ~fileOk
    /\ pc' = "thrown"
    /\ UNCHANGED <<fileContent, fnpc, keywords, topics, fileOk, sent, remote, outcome, result>>
    /\ UNCHANGED apiVars
    /\ UNCHANGED <<references, questions>>

\* the file is read and the request is posted; the function suspends at the await
PostRequest ==
    /\ pc = "start"
    /\ fileOk
    /\ sent' = contentSummary(fileContent)
    /\ \E r \in RemoteBehaviours : remote' = r
    /\ pc' = "awaiting"
    /\ UNCHANGED <<fileContent, fnpc, keywords, topics, fileOk, outcome, result>>
    /\ UNCHANGED apiVars
    /\ UNCHANGED <<references, questions>>

\* fallbackResult of every uploaded text, evaluated once
fallbackResults == [t \in PipelineTexts |-> fallbackResult(t)]

\* execution falls out of the outer try's remote part and runs the fallback;
\* an error thrown there reaches the outer catch, which rethrows
ReturnFallback ==
    /\ IF fallbackResults[fileContent] = TypeError
       THEN pc' = "thrown" /\ UNCHANGED <<outcome, result>>
       ELSE /\ outcome' = "Fallback"
            /\ result' = fallbackResults[fileContent]
            /\ pc' = "returned"
    /\ UNCHANGED <<fileContent, fnpc, keywords, topics, fileOk, sent, remote>>
    /\ UNCHANGED apiVars
    /\ UNCHANGED <<references, questions>>

\* Faulty variant of RequestRejected: the catch block rethrows
RequestRejectedRethrows ==
    /\ pc = "awaiting"
    /\ remote.kind \in {"error", "timeout"}
    /\ pc' = "thrown"
    /\ UNCHANGED <<fileContent, fnpc, keywords, topics, fileOk, sent, remote, outcome, result>>
    /\ UNCHANGED apiVars
    /\ UNCHANGED <<references, questions>>

\* the promise rejects: catch (apiError), then the fallback
RequestRejected ==
    /\ pc = "awaiting"
    /\ remote.kind \in {"error", "timeout"}
    /\ ReturnFallback

\* the response has no data or no generated_text: the if is skipped
ResponseWithoutText ==
    /\ pc = "awaiting"
    /\ remote.kind = "response"
    /\ ~hasGeneratedText(remote)
    /\ ReturnFallback

\* generated_text is not a string: includes throws, catch (apiError)
ResponseNotAString ==
    /\ pc = "awaiting"
    /\ hasGeneratedText(remote)
    /\ includesThrows(remote)
    /\ ReturnFallback

\* the inner try throws: catch (jsonError), then the fallback
ResponseUnparsable ==
    /\ pc = "awaiting"
    /\ hasGeneratedText(remote)
    /\ ~includesThrows(remote)
    /\ parseThrows(parsedPlanOf(remote))
    /\ ReturnFallback

\* return JSON.stringify(studyPlan)
ResponseParsed ==
    /\ pc = "awaiting"
    /\ returnsRemote(remote)
    /\ outcome' = "Remote"
    /\ result' = stringify(studyPlanOf(parsedPlanOf(remote)))
    /\ pc' = "returned"
    /\ UNCHANGED <<fileContent, fnpc, keywords, topics, fileOk, sent, remote>>
    /\ UNCHANGED apiVars
    /\ UNCHANGED <<references, questions>>

Next ==
    \/ ReadFileFails
    \/ PostRequest
    \/ RequestRejected
    \/ ResponseWithoutText
    \/ ResponseNotAString
    \/ ResponseUnparsable
    \/ ResponseParsed

Spec == Init /\ [][Next]_vars

\* the event loop runs every continuation that is ready
LiveSpec == Spec /\ WF_vars(Next)

-----------------------------------------------------------------------------
(* MemStorage (server/storage.ts).  A record is a function from field names *)
(* to values; createdAt, updatedAt, generatedAt and uploadedAt, which hold   *)
(* the clock, are left out.                                                  *)

\* Map.set(id, record)
mapSet(map, id, record) ==
    [k \in DOMAIN map \cup {id} |-> IF k = id THEN record ELSE map[k]]

\* Map.delete(id)
mapDelete(map, id) == [k \in DOMAIN map \ {id} |-> map[k]]

\* { ...record, ...updates }
spread(record, updates) ==
    [f \in DOMAIN record \cup DOMAIN updates |->
        IF f \in DOMAIN updates THEN updates[f] ELSE record[f]]

\* the course createCourse stores under id
createCourse(insertCourse, id) == spread(insertCourse, [id |-> id])

\* the course updateCourse stores back under its key
updateCourse(course, updates) == spread(course, updates)

\* the material createMaterial stores under id
createMaterial(insertMaterial, id) == spread(insertMaterial, [id |-> id])

\* the study plan createStudyPlan stores under id: isActive ?? true
createStudyPlan(insertStudyPlan, id) ==
    spread(insertStudyPlan,
           [id |-> id,
            isActive |-> IF "isActive" \in DOMAIN insertStudyPlan
                         THEN insertStudyPlan.isActive ELSE TRUE])

\* the study plan updateStudyPlan stores back under its key
updateStudyPlan(studyPlan, updates) == spread(studyPlan, updates)

\* getCoursesByUserId: keys of the courses whose userId is userId
getCoursesByUserId(userId) == {k \in DOMAIN courses : courses[k].userId = userId}

\* getMaterialsByCourseId
getMaterialsByCourseId(courseId) ==
    {k \in DOMAIN materials : materials[k].courseId = courseId}

\* getStudyPlansByCourseId
getStudyPlansByCourseId(courseId) ==
    {k \in DOMAIN studyPlans : studyPlans[k].courseId = courseId}

\* getStudyPlansByUserId: plans whose courseId is the id of one of the user's courses
getStudyPlansByUserId(userId) ==
    {k \in DOMAIN studyPlans :
        \E c \in getCoursesByUserId(userId) : courses[c].id = studyPlans[k].courseId}

-----------------------------------------------------------------------------
(* Requests: bodies and parameters *)

\* at most this many handler steps are taken
MaxRequests == 3

CourseNames == {"Biology", "Renamed"}

\* bodies of POST /api/courses: the second fails insertCourseSchema.parse
CourseBodies == {[name |-> "Biology"], EmptyBody}

\* bodies of PUT /api/courses/:id
CourseUpdates ==
    {[name |-> "Renamed"], [id |-> courseIdCounter]} \cup {[userId |-> u] : u \in Users}

\* content a client sends for a study plan
BodyContent == JStr(Chars("notes"))

\* bodies of POST /api/study-plans for course c: complete, without content, without courseId
StudyPlanBodies(c) ==
    {[courseId |-> c, content |-> BodyContent], [courseId |-> c], EmptyBody}

\* bodies of PUT /api/study-plans/:id
StudyPlanUpdates ==
    {[isActive |-> FALSE], [content |-> BodyContent], [id |-> studyPlanIdCounter]}
    \cup {[courseId |-> c] : c \in 1..courseIdCounter}

\* ids a request can name: every id handed out so far and the next one
CourseIds == 1..courseIdCounter
MaterialIds == 1..materialIdCounter
StudyPlanIds == 1..studyPlanIdCounter

\* what the uploaded file holds
UploadTexts == {Chars("acid"), Chars("Acids")}

\* generated_text the remote model may answer an upload with
UploadResponse == objectText(JStr(Chars("X")), Undefined, JArr(<<>>), Undefined)

\* how the remote call of an upload settles
UploadRemotes ==
    {Settled("error", "none", <<>>), Settled("silent", "none", <<>>),
     Settled("response", "text", UploadResponse)}

\* Faulty variant of generateStudyPlanResult: fileContent is one variable shared
\* by all runs, holding the text of the upload that started last
generateStudyPlanResultShared(text, r) ==
    LET latest == CHOOSE u \in uploads : \A v \in uploads : v.materialId <= u.materialId
    IN IF returnsRemote(r) THEN stringify(studyPlanOf(parsedPlanOf(r)))
                           ELSE fallbackResults[latest.text]
\* what generateStudyPlan returns for a readable file once the call has settled
generateStudyPlanResult(text, r) ==
    IF returnsRemote(r) THEN stringify(studyPlanOf(parsedPlanOf(r)))
                        ELSE fallbackResults[text]

-----------------------------------------------------------------------------
(* Routes (server/routes.ts, server/file-upload.ts) *)

\* res.status(status).json(...)
Respond(route, user, id, status, returned) ==
    /\ last' = [route |-> route, user |-> user, id |-> id, status |-> status,
                returned |-> returned]
    /\ requests' = requests + 1

\* the answer of an upload whose remote call has settled as r
Settle(route, user, id, status, returned, r) ==
    /\ last' = [route |-> route, user |-> user, id |-> id, status |-> status,
                returned |-> returned, remote |-> r]
    /\ requests' = requests + 1

counters == <<courseIdCounter, materialIdCounter, studyPlanIdCounter>>
disk == <<files, uploadCounter, uploads>>

\* GET /api/courses
GetCourses ==
    /\ requests < MaxRequests
    /\ \E user \in Requesters :
          IF user = NoUser
          THEN Respond("GET /api/courses", user, 0, 401, {})
          ELSE Respond("GET /api/courses", user, 0, 200,
                       {<<"course", k, k>> : k \in getCoursesByUserId(user)})
    /\ UNCHANGED <<courses, materials, studyPlans, counters, disk>>
    /\ UNCHANGED planVars

\* GET /api/courses/:id
GetCourse ==
    /\ requests < MaxRequests
    /\ \E user \in Requesters, id \in CourseIds :
          LET route == "GET /api/courses/:id" IN
          IF user = NoUser THEN Respond(route, user, id, 401, {})
          ELSE IF id \notin DOMAIN courses THEN Respond(route, user, id, 404, {})
          ELSE IF courses[id].userId # user THEN Respond(route, user, id, 403, {})
          ELSE Respond(route, user, id, 200, {<<"course", id, id>>})
    /\ UNCHANGED <<courses, materials, studyPlans, counters, disk>>
    /\ UNCHANGED planVars

\* POST /api/courses
PostCourse ==
    /\ requests < MaxRequests
    /\ \E user \in Requesters, body \in CourseBodies :
          LET route == "POST /api/courses" IN
          IF user = NoUser
          THEN Respond(route, user, 0, 401, {}) /\ UNCHANGED <<courses, courseIdCounter>>
          ELSE IF "name" \notin DOMAIN body
          THEN Respond(route, user, 0, 400, {}) /\ UNCHANGED <<courses, courseIdCounter>>
          ELSE /\ courses' = mapSet(courses, courseIdCounter,
                                    createCourse(spread(body, [userId |-> user]),
                                                 courseIdCounter))
               /\ courseIdCounter' = courseIdCounter + 1
               /\ Respond(route, user, 0, 201, {<<"course", courseIdCounter, courseIdCounter>>})
    /\ UNCHANGED <<materials, studyPlans, materialIdCounter, studyPlanIdCounter, disk>>
    /\ UNCHANGED planVars

\* PUT /api/courses/:id
PutCourse ==
    /\ requests < MaxRequests
    /\ \E user \in Requesters, id \in CourseIds, body \in CourseUpdates :
          LET route == "PUT /api/courses/:id" IN
          IF user = NoUser THEN Respond(route, user, id, 401, {}) /\ UNCHANGED courses
          ELSE IF id \notin DOMAIN courses
          THEN Respond(route, user, id, 404, {}) /\ UNCHANGED courses
          ELSE IF courses[id].userId # user
          THEN Respond(route, user, id, 403, {}) /\ UNCHANGED courses
          ELSE /\ courses' = mapSet(courses, id, updateCourse(courses[id], body))
               /\ Respond(route, user, id, 200, {<<"course", id, id>>})
    /\ UNCHANGED <<materials, studyPlans, counters, disk>>
    /\ UNCHANGED planVars

\* DELETE /api/courses/:id
DeleteCourse ==
    /\ requests < MaxRequests
    /\ \E user \in Requesters, id \in CourseIds :
          LET route == "DELETE /api/courses/:id" IN
          IF user = NoUser THEN Respond(route, user, id, 401, {}) /\ UNCHANGED courses
          ELSE IF id \notin DOMAIN courses
          THEN Respond(route, user, id, 404, {}) /\ UNCHANGED courses
          ELSE IF courses[id].userId # user
          THEN Respond(route, user, id, 403, {}) /\ UNCHANGED courses
          ELSE /\ courses' = mapDelete(courses, id)
               /\ Respond(route, user, id, 200, {})
    /\ UNCHANGED <<materials, studyPlans, counters, disk>>
    /\ UNCHANGED planVars

\* GET /api/study-plans
GetStudyPlans ==
    /\ requests < MaxRequests
    /\ \E user \in Requesters :
          IF user = NoUser
          THEN Respond("GET /api/study-plans", user, 0, 401, {})
          ELSE Respond("GET /api/study-plans", user, 0, 200,
                       {<<"studyPlan", k, studyPlans[k].courseId>> : k \in getStudyPlansByUserId(user)})
    /\ UNCHANGED <<courses, materials, studyPlans, counters, disk>>
    /\ UNCHANGED planVars

\* GET /api/courses/:courseId/study-plans
GetCourseStudyPlans ==
    /\ requests < MaxRequests
    /\ \E user \in Requesters, courseId \in CourseIds :
          LET route == "GET /api/courses/:courseId/study-plans" IN
          IF user = NoUser THEN Respond(route, user, courseId, 401, {})
          ELSE IF courseId \notin DOMAIN courses THEN Respond(route, user, courseId, 404, {})
          ELSE IF courses[courseId].userId # user THEN Respond(route, user, courseId, 403, {})
          ELSE Respond(route, user, courseId, 200,
                       {<<"studyPlan", k, courseId>> : k \in getStudyPlansByCourseId(courseId)})
    /\ UNCHANGED <<courses, materials, studyPlans, counters, disk>>
    /\ UNCHANGED planVars

\* GET /api/study-plans/:id
GetStudyPlan ==
    /\ requests < MaxRequests
    /\ \E user \in Requesters, id \in StudyPlanIds :
          LET route == "GET /api/study-plans/:id" IN
          IF user = NoUser THEN Respond(route, user, id, 401, {})
          ELSE IF id \notin DOMAIN studyPlans THEN Respond(route, user, id, 404, {})
          ELSE IF \/ studyPlans[id].courseId \notin DOMAIN courses
                  \/ courses[studyPlans[id].courseId].userId # user
          THEN Respond(route, user, id, 403, {})
          ELSE Respond(route, user, id, 200, {<<"studyPlan", id, studyPlans[id].courseId>>})
    /\ UNCHANGED <<courses, materials, studyPlans, counters, disk>>
    /\ UNCHANGED planVars

\* POST /api/study-plans: the course of the body is looked up first, then the
\* body is validated
PostStudyPlan ==
    /\ requests < MaxRequests
    /\ \E user \in Requesters, c \in CourseIds :
       \E body \in StudyPlanBodies(c) :
          LET route == "POST /api/study-plans"
              courseId == IF "courseId" \in DOMAIN body THEN body.courseId ELSE 0
          IN
          IF user = NoUser
          THEN Respond(route, user, courseId, 401, {})
               /\ UNCHANGED <<studyPlans, studyPlanIdCounter>>
          ELSE IF \/ courseId \notin DOMAIN courses
                  \/ courses[courseId].userId # user
          THEN Respond(route, user, courseId, 403, {})
               /\ UNCHANGED <<studyPlans, studyPlanIdCounter>>
          ELSE IF "content" \notin DOMAIN body
          THEN Respond(route, user, courseId, 400, {})
               /\ UNCHANGED <<studyPlans, studyPlanIdCounter>>
          ELSE /\ studyPlans' = mapSet(studyPlans, studyPlanIdCounter,
                                       createStudyPlan(body, studyPlanIdCounter))
               /\ studyPlanIdCounter' = studyPlanIdCounter + 1
               /\ Respond(route, user, courseId, 201,
                          {<<"studyPlan", studyPlanIdCounter, courseId>>})
    /\ UNCHANGED <<courses, materials, courseIdCounter, materialIdCounter, disk>>
    /\ UNCHANGED planVars

\* PUT /api/study-plans/:id
PutStudyPlan ==
    /\ requests < MaxRequests
    /\ \E user \in Requesters, id \in StudyPlanIds, body \in StudyPlanUpdates :
          LET route == "PUT /api/study-plans/:id" IN
          IF user = NoUser THEN Respond(route, user, id, 401, {}) /\ UNCHANGED studyPlans
          ELSE IF id \notin DOMAIN studyPlans
          THEN Respond(route, user, id, 404, {}) /\ UNCHANGED studyPlans
          ELSE IF \/ studyPlans[id].courseId \notin DOMAIN courses
                  \/ courses[studyPlans[id].courseId].userId # user
          THEN Respond(route, user, id, 403, {}) /\ UNCHANGED studyPlans
          ELSE /\ studyPlans' = mapSet(studyPlans, id, updateStudyPlan(studyPlans[id], body))
               /\ Respond(route, user, id, 200, {<<"studyPlan", id, studyPlans[id].courseId>>})
    /\ UNCHANGED <<courses, materials, counters, disk>>
    /\ UNCHANGED planVars

\* DELETE /api/study-plans/:id
DeleteStudyPlan ==
    /\ requests < MaxRequests
    /\ \E user \in Requesters, id \in StudyPlanIds :
          LET route == "DELETE /api/study-plans/:id" IN
          IF user = NoUser THEN Respond(route, user, id, 401, {}) /\ UNCHANGED studyPlans
          ELSE IF id \notin DOMAIN studyPlans
          THEN Respond(route, user, id, 404, {}) /\ UNCHANGED studyPlans
          ELSE IF \/ studyPlans[id].courseId \notin DOMAIN courses
                  \/ courses[studyPlans[id].courseId].userId # user
          THEN Respond(route, user, id, 403, {}) /\ UNCHANGED studyPlans
          ELSE /\ studyPlans' = mapDelete(studyPlans, id)
               /\ Respond(route, user, id, 200, {})
    /\ UNCHANGED <<courses, materials, counters, disk>>
    /\ UNCHANGED planVars

\* Faulty variant of uploadStudyPlan: the plan is handed over inactive
uploadStudyPlanInactive(courseId, content) ==
    [courseId |-> courseId, content |-> content, isActive |-> FALSE]
\* the study plan the upload handler hands to createStudyPlan
uploadStudyPlan(courseId, content) ==
    [courseId |-> courseId, content |-> content, isActive |-> TRUE]

\* POST /api/courses/:courseId/materials up to the await inside generateStudyPlan.
\* isAuthenticated runs before multer; multer stores the file under a fresh
\* name before the handler runs.  readable: whether fs.readFileSync succeeds.
UploadBegin ==
    /\ requests < MaxRequests
    /\ \E user \in Requesters, courseId \in CourseIds :
          LET route == "POST /api/courses/:courseId/materials"
              path == uploadCounter + 1
              materialId == materialIdCounter
              material == createMaterial([courseId |-> courseId, path |-> path], materialId)
          IN
          IF user = NoUser
          THEN /\ Respond(route, user, courseId, 401, {})
               /\ UNCHANGED <<materials, materialIdCounter, disk>>
          ELSE \E hasFile \in BOOLEAN :
               IF ~hasFile
               THEN /\ Respond(route, user, courseId, 400, {})
                    /\ UNCHANGED <<materials, materialIdCounter, disk>>
               ELSE /\ uploadCounter' = uploadCounter + 1
                    /\ IF courseId \notin DOMAIN courses
                       THEN /\ Respond(route, user, courseId, 404, {})
                            /\ files' = files \cup {path}
                            /\ UNCHANGED <<materials, materialIdCounter, uploads>>
                       ELSE IF courses[courseId].userId # user
                       THEN /\ Respond(route, user, courseId, 403, {})
                            /\ files' = files \cup {path}
                            /\ UNCHANGED <<materials, materialIdCounter, uploads>>
                       ELSE /\ materials' = mapSet(materials, materialId, material)
                            /\ materialIdCounter' = materialIdCounter + 1
                            /\ \E readable \in BOOLEAN :
                               IF ~readable
                               THEN \* generateStudyPlan throws; the catch unlinks the file
                                    /\ Respond(route, user, courseId, 500, {})
                                    /\ UNCHANGED <<files, uploads>>
                               ELSE /\ files' = files \cup {path}
                                    /\ \E text \in UploadTexts :
                                          uploads' = uploads \cup
                                             {[user |-> user, courseId |-> courseId,
                                               materialId |-> materialId, path |-> path,
                                               text |-> text,
                                               aborted |-> FALSE]}
                                    /\ Respond(route, user, courseId, 0, {})
    /\ UNCHANGED <<courses, studyPlans, courseIdCounter, studyPlanIdCounter>>
    /\ UNCHANGED planVars

\* the client closes the connection of a suspended upload.  The handler
\* registers no 'close' listener and the axios call carries no signal, so the
\* suspended handler is not told
AbortUpload ==
    /\ requests < MaxRequests
    /\ \E u \in uploads :
          /\ ~u.aborted
          /\ uploads' = (uploads \ {u}) \cup {[u EXCEPT !.aborted = TRUE]}
          /\ last' = [route |-> "close", user |-> u.user, id |-> u.courseId,
                      status |-> 0, returned |-> {}]
          /\ requests' = requests + 1
    /\ UNCHANGED <<courses, materials, studyPlans, counters, files, uploadCounter>>
    /\ UNCHANGED planVars

\* the remote call of a suspended upload settles, as r: generateStudyPlan returns
\* (or throws out of the fallback), the study plan is created and 201 is answered
UploadFinish ==
    /\ requests < MaxRequests
    /\ \E u \in uploads, r \in UploadRemotes :
          LET route == "POST /api/courses/:courseId/materials"
              content == generateStudyPlanResult(u.text, r)
          IN
          /\ r.kind # "silent"
          /\ uploads' = uploads \ {u}
          /\ IF content = TypeError
             THEN /\ Settle(route, u.user, u.courseId, 500, {}, r)
                  /\ files' = files \ {u.path}
                  /\ UNCHANGED <<studyPlans, studyPlanIdCounter>>
             ELSE /\ studyPlans' = mapSet(studyPlans, studyPlanIdCounter,
                                          createStudyPlan(uploadStudyPlan(u.courseId, content),
                                                          studyPlanIdCounter))
                  /\ studyPlanIdCounter' = studyPlanIdCounter + 1
                  /\ Settle(route, u.user, u.courseId, 201,
                            {<<"material", u.materialId, u.courseId>>,
                             <<"studyPlan", studyPlanIdCounter, u.courseId>>}, r)
                  /\ UNCHANGED files
    /\ UNCHANGED <<courses, materials, courseIdCounter, materialIdCounter, uploadCounter>>
    /\ UNCHANGED planVars

\* GET /api/courses/:courseId/materials
GetMaterials ==
    /\ requests < MaxRequests
    /\ \E user \in Requesters, courseId \in CourseIds :
          LET route == "GET /api/courses/:courseId/materials" IN
          IF user = NoUser THEN Respond(route, user, courseId, 401, {})
          ELSE IF courseId \notin DOMAIN courses THEN Respond(route, user, courseId, 404, {})
          ELSE IF courses[courseId].userId # user THEN Respond(route, user, courseId, 403, {})
          ELSE Respond(route, user, courseId, 200,
                       {<<"material", k, courseId>> : k \in getMaterialsByCourseId(courseId)})
    /\ UNCHANGED <<courses, materials, studyPlans, counters, disk>>
    /\ UNCHANGED planVars

\* GET /api/materials/:materialId/download; res.download of a path that is not
\* on disk ends in the framework's not-found answer
DownloadMaterial ==
    /\ requests < MaxRequests
    /\ \E user \in Requesters, materialId \in MaterialIds :
          LET route == "GET /api/materials/:materialId/download" IN
          IF user = NoUser THEN Respond(route, user, materialId, 401, {})
          ELSE IF materialId \notin DOMAIN materials
          THEN Respond(route, user, materialId, 404, {})
          ELSE IF \/ materials[materialId].courseId \notin DOMAIN courses
                  \/ courses[materials[materialId].courseId].userId # user
          THEN Respond(route, user, materialId, 403, {})
          ELSE IF materials[materialId].path \notin files
          THEN Respond(route, user, materialId, 404, {})
          ELSE Respond(route, user, materialId, 200,
                       {<<"material", materialId, materials[materialId].courseId>>})
    /\ UNCHANGED <<courses, materials, studyPlans, counters, disk>>
    /\ UNCHANGED planVars

\* DELETE /api/materials/:materialId
DeleteMaterial ==
    /\ requests < MaxRequests
    /\ \E user \in Requesters, materialId \in MaterialIds :
          LET route == "DELETE /api/materials/:materialId" IN
          IF user = NoUser
          THEN Respond(route, user, materialId, 401, {}) /\ UNCHANGED <<materials, files>>
          ELSE IF materialId \notin DOMAIN materials
          THEN Respond(route, user, materialId, 404, {}) /\ UNCHANGED <<materials, files>>
          ELSE IF \/ materials[materialId].courseId \notin DOMAIN courses
                  \/ courses[materials[materialId].courseId].userId # user
          THEN Respond(route, user, materialId, 403, {}) /\ UNCHANGED <<materials, files>>
          ELSE /\ files' = files \ {materials[materialId].path}
               /\ materials' = mapDelete(materials, materialId)
               /\ Respond(route, user, materialId, 200, {})
    /\ UNCHANGED <<courses, studyPlans, counters, uploadCounter, uploads>>
    /\ UNCHANGED planVars

\* the store after each user has created one course
SeededCourses == [k \in Users |-> createCourse([name |-> "Biology", userId |-> k], k)]

\* a fresh server, or one on which each user has already created a course
ApiInit ==
    /\ fileContent = <<>>
    /\ fnpc = "off"
    /\ keywords = <<>>
    /\ topics = <<>>
    /\ fileOk = TRUE
    /\ pc = "off"
    /\ sent = <<>>
    /\ remote = NoRemote
    /\ outcome = "none"
    /\ result = Undefined
    /\ references = NoReferences
    /\ questions = NoQuestions
    /\ materials = EmptyMap
    /\ studyPlans = EmptyMap
    /\ materialIdCounter = 1
    /\ studyPlanIdCounter = 1
    /\ files = {}
    /\ uploadCounter = 0
    /\ uploads = {}
    /\ last = NoResponse
    /\ requests = 0
    /\ \/ courses = EmptyMap /\ courseIdCounter = 1
       \/ courses = SeededCourses /\ courseIdCounter = Cardinality(Users) + 1

ApiNext ==
    \/ GetCourses
    \/ GetCourse
    \/ PostCourse
    \/ PutCourse
    \/ DeleteCourse
    \/ GetStudyPlans
    \/ GetCourseStudyPlans
    \/ GetStudyPlan
    \/ PostStudyPlan
    \/ PutStudyPlan
    \/ DeleteStudyPlan
    \/ UploadBegin
    \/ AbortUpload
    \/ UploadFinish
    \/ GetMaterials
    \/ DownloadMaterial
    \/ DeleteMaterial

ApiSpec == ApiInit /\ [][ApiNext]_vars

-----------------------------------------------------------------------------
(* Properties of extractKeywords and generateTopicsFromKeywords (FnSpec) *)

KeywordsExtracted == fnpc \in {"keywords", "topics"}

\* C7: for every input text extractKeywords returns between 0 and 10 tokens,
\* every returned token is longer than 4 characters, and no token occurs twice.
C7_KeywordBound ==
    KeywordsExtracted =>
        /\ Len(keywords) >= 0
        /\ Len(keywords) <= 10
        /\ \A i \in 1..Len(keywords) : Len(keywords[i]) > 4
        /\ \A i, j \in 1..Len(keywords) : i # j => keywords[i] # keywords[j]

\* a text with more than 10 distinct long words, cut to 10
C7_Witness ==
    /\ fnpc = "keywords"
    /\ Len(keywords) = 10
    /\ Cardinality(Range(longWords(splitWs(stripNonWord(toLowerCase(fileContent)))))) > 10

\* The reference computation, stated on positions of the cleaned text: the
\* lowercased text with every character that is neither a word character nor
\* whitespace deleted.
RefCleaned(text) ==
    SelectSeq([i \in 1..Len(text) |-> toLowerCaseChar(text[i])],
              LAMBDA c : IsWordChar(c) \/ IsSpace(c))

\* <<a, b>>: s[a..b] is a whitespace-delimited token longer than 4 characters
RefLongTokens(s) ==
    LET starts == {a \in 1..Len(s) : ~IsSpace(s[a]) /\ (a = 1 \/ IsSpace(s[a - 1]))}
    IN  {ab \in starts \X (1..Len(s)) :
            /\ ab[2] - ab[1] + 1 > 4
            /\ ab[2] = Len(s) \/ IsSpace(s[ab[2] + 1])
            /\ \A k \in ab[1]..ab[2] : ~IsSpace(s[k])}

RefWords(s) == {SubSeq(s, ab[1], ab[2]) : ab \in RefLongTokens(s)}

\* where the word w first occurs as a token of s
RefFirst(s, w) ==
    LET at == {ab[1] : ab \in {x \in RefLongTokens(s) : SubSeq(s, x[1], x[2]) = w}}
    IN  CHOOSE a \in at : \A b \in at : a <= b

\* kw is the first 10 distinct long tokens of the cleaned text, each at its
\* first occurrence, in order of first occurrence
RefIsKeywords(text, kw) ==
    LET s == RefCleaned(text)
        words == RefWords(s)
    IN  /\ \A i \in 1..Len(kw) : kw[i] \in words
        /\ \A i \in 1..Len(kw) : \A j \in 1..Len(kw) :
               i < j => RefFirst(s, kw[i]) < RefFirst(s, kw[j])
        /\ Len(kw) = Min(10, Cardinality(words))
        /\ \A w \in words \ Range(kw) :
               \A i \in 1..Len(kw) : RefFirst(s, kw[i]) < RefFirst(s, w)

\* C8: extractKeywords(text) equals the reference computation: lowercase,
\* delete every character that is neither a word character nor whitespace,
\* split on whitespace, keep tokens longer than 4 characters, remove duplicates
\* keeping the first occurrence, take the first 10 in that order; a text with
\* no long token yields the empty sequence.
C8_KeywordsAreReference ==
    KeywordsExtracted =>
        /\ RefIsKeywords(fileContent, keywords)
        /\ RefWords(RefCleaned(fileContent)) = {} => keywords = <<>>

\* a text where punctuation is deleted inside a token, a token is repeated
\* and short tokens are dropped
C8_Witness ==
    /\ fnpc = "keywords"
    /\ Len(keywords) >= 2
    /\ Len(RefCleaned(fileContent)) < Len(fileContent)
    /\ Cardinality(RefLongTokens(RefCleaned(fileContent)))
           > Cardinality(RefWords(RefCleaned(fileContent)))

\* C9 as stated: for the text "chapter 3 organic chemistry reactions page 45
\* mechanisms" extractKeywords returns ["organic","chemistry","reactions",
\* "mechanisms"].
C9_ExampleAsStated ==
    (KeywordsExtracted /\ fileContent = ExampleText) =>
        keywords = <<Chars("organic"), Chars("chemistry"), Chars("reactions"),
                     Chars("mechanisms")>>

\* C9 amended: for that text extractKeywords returns ["chapter","organic",
\* "chemistry","reactions","mechanisms"]: "chapter" has 7 characters and is kept.
C9_ExampleKeywords ==
    (KeywordsExtracted /\ fileContent = ExampleText) =>
        keywords = <<Chars("chapter"), Chars("organic"), Chars("chemistry"),
                     Chars("reactions"), Chars("mechanisms")>>

C9_Witness == fnpc = "keywords" /\ fileContent = ExampleText /\ Len(keywords) = 5

\* C10: generateTopicsFromKeywords returns exactly 4 topics for every keyword
\* list, whether it has 0, 1, 2, 3 or more than 3 keywords.
C10_FourTopics == fnpc = "topics" => Len(topics) = 4

\* one keyword: topics 2 and 3 are built without a keyword
C10_Witness ==
    /\ fnpc = "topics"
    /\ Len(keywords) = 1
    /\ Len(topics) = 4
    /\ topics[2].name = Chars("Practical Applications")

\* the first letter of a lowercase keyword in upper case
RefCapitalized(k) ==
    IF k = <<>> THEN k
    ELSE LET at == {i \in 1..26 : LowerChars[i] = k[1]}
         IN  IF at = {} THEN k
             ELSE [i \in 1..Len(k) |-> IF i = 1 THEN UpperChars[CHOOSE j \in at : TRUE] ELSE k[i]]

\* "K1", "K1, K2" or "K1, K2, K3": the first min(3, n) keywords capitalized
RefListed(kw) ==
    CASE Len(kw) = 1 -> RefCapitalized(kw[1])
      [] Len(kw) = 2 -> RefCapitalized(kw[1]) \o Chars(", ") \o RefCapitalized(kw[2])
      [] OTHER -> RefCapitalized(kw[1]) \o Chars(", ") \o RefCapitalized(kw[2])
                      \o Chars(", ") \o RefCapitalized(kw[3])

\* C11: with a non-empty keyword list, topic k (k = 1, 2, 3) is built from
\* keyword k-1 exactly when the list has at least k keywords and otherwise has
\* the fixed generic name and description; topic 4 is named "Review and
\* Assessment" and its description lists the first min(3, n) keywords
\* capitalized; with an empty list the four fixed generic topics are returned.
C11_TopicsFromKeywords ==
    fnpc = "topics" =>
        LET n == Len(keywords)
            name(k) == topics[k].name
            desc(k) == topics[k].description
        IN  /\ n = 0 =>
                /\ Len(topics) = 4
                /\ name(1) = Chars("Understanding Core Concepts")
                /\ name(2) = Chars("Applying Theory to Practice")
                /\ name(3) = Chars("Advanced Topic Exploration")
                /\ name(4) = Chars("Review and Self-Assessment")
                /\ desc(1) = Chars("Master the fundamental principles in your course material")
                /\ desc(2) = Chars("Learn how to apply theoretical knowledge to practical scenarios")
                /\ desc(3) = Chars("Dive deeper into complex topics from your materials")
                /\ desc(4) = Chars("Test your understanding and identify areas for improvement")
                /\ topics[1].resources = <<Chars("Review your course notes"), Chars("Create a concept map")>>
                /\ topics[4].resources = <<Chars("Create practice tests"), Chars("Review difficult concepts")>>
            /\ n > 0 =>
                /\ name(1) = Chars("Understanding ") \o RefCapitalized(keywords[1]) \o Chars(" Concepts")
                /\ desc(1) = Chars("Master the fundamental principles of ") \o keywords[1]
                                 \o Chars(" and related topics")
                /\ IF n >= 2
                   THEN /\ name(2) = RefCapitalized(keywords[2]) \o Chars(" Applications")
                        /\ desc(2) = Chars("Learn how ") \o keywords[2]
                                         \o Chars(" applies to real-world scenarios")
                   ELSE /\ name(2) = Chars("Practical Applications")
                        /\ desc(2) = Chars("Apply concepts to practical examples")
                /\ IF n >= 3
                   THEN /\ name(3) = Chars("Advanced ") \o RefCapitalized(keywords[3])
                        /\ desc(3) = Chars("Explore complex aspects of ") \o keywords[3]
                   ELSE /\ name(3) = Chars("Advanced Topics")
                        /\ desc(3) = Chars("Dive deeper into advanced material")
                /\ name(4) = Chars("Review and Assessment")
                /\ desc(4) = Chars("Test your understanding of ") \o RefListed(keywords)
                                 \o Chars(" and other key topics")

\* two keywords: topic 2 is built from the second, topic 3 is generic
C11_Witness ==
    /\ fnpc = "topics"
    /\ Len(keywords) = 2
    /\ topics[2].name = RefCapitalized(keywords[2]) \o Chars(" Applications")
    /\ topics[3].name = Chars("Advanced Topics")

\* the questions of the document returned by the fallback composer
PlanQuestions == getMember(getMember(result, "quiz"), "questions")

\* C12: in every fallback document the quiz has exactly 6 questions, and every
\* question has exactly 4 options and a correctAnswer between 0 and 3, for
\* every input text, including texts with 0 to 3 keywords.
C12_FallbackQuizShape ==
    fnpc = "plan" =>
        /\ PlanQuestions.type = "array"
        /\ Len(PlanQuestions.v) = 6
        /\ \A i \in 1..Len(PlanQuestions.v) :
               LET q == PlanQuestions.v[i]
               IN  /\ getMember(q, "options").type = "array"
                   /\ Len(getMember(q, "options").v) = 4
                   /\ getMember(q, "correctAnswer").type = "number"
                   /\ getMember(q, "correctAnswer").v \in 0..3

\* a text with one keyword: both invocations get fewer than two related terms
C12_Witness ==
    /\ fnpc = "plan"
    /\ Len(keywords) = 1
    /\ Len(PlanQuestions.v) = 6

\* C13: generateQuizQuestions(topic, relatedTerms) returns exactly 3
\* questions, main-purpose, second, real-world-application, with correctAnswer
\* 0, 2, 1; the second is the relationship question between relatedTerms[0]
\* and relatedTerms[1] exactly when relatedTerms has more than one element and
\* otherwise the "NOT a key principle" question; option 0 of the first uses
\* relatedTerms[0] when present and the generic phrase otherwise.
C13_ThreeQuestions ==
    fnpc = "quiz" =>
        LET t == questions.topic
            r == questions.relatedTerms
            q == questions.questions
        IN  /\ Len(q) = 3
            /\ q[1].question =
                   Chars("Which of the following best describes the main purpose of ")
                       \o t \o Chars("?")
            /\ q[1].correctAnswer = 0
            /\ q[1].options[1] =
                   Chars("To analyze and understand ")
                       \o (IF r # <<>> THEN Head(r) ELSE Chars("core concepts"))
            /\ q[2].correctAnswer = 2
            /\ IF Len(r) > 1
               THEN q[2].question =
                        Chars("How does ") \o r[1] \o Chars(" relate to ") \o r[2]
                            \o Chars(" in the context of ") \o t \o Chars("?")
               ELSE q[2].question =
                        Chars("Which of the following is NOT a key principle of ")
                            \o t \o Chars("?")
            /\ q[3].question = Chars("How would you apply ") \o t
                                   \o Chars(" knowledge to solve a real-world problem?")
            /\ q[3].correctAnswer = 1
            /\ \A i \in 1..3 : Len(q[i].options) = 4

\* one related term: named in option 0, but the second question is generic
C13_Witness ==
    /\ fnpc = "quiz"
    /\ Len(questions.relatedTerms) = 1
    /\ questions.questions[1].options[1] = Chars("To analyze and understand acids")
    /\ questions.questions[2].options[3] = Chars("Ignoring related fields of study")

\* where /word\s+\d+/i matches in the text: <<a, b, c>> with the word at a,
\* the digits from b to c, only whitespace between the word and b, and no
\* digit after c
RefMatches(text, word) ==
    LET n == Len(word)
        wordAt(a) == /\ a + n - 1 <= Len(text)
                     /\ \A k \in 1..n : text[a + k - 1] \in {word[k], toUpperCaseChar(word[k])}
        words == {a \in 1..Len(text) : wordAt(a)}
        firstDigits == {b \in 2..Len(text) : IsDigit(text[b]) /\ IsSpace(text[b - 1])}
        lastDigits == {c \in 1..Len(text) :
                          IsDigit(text[c]) /\ (c = Len(text) \/ ~IsDigit(text[c + 1]))}
    IN  {abc \in words \X firstDigits \X lastDigits :
            /\ abc[1] + n < abc[2]
            /\ abc[2] <= abc[3]
            /\ \A k \in (abc[1] + n)..(abc[2] - 1) : IsSpace(text[k])
            /\ \A k \in abc[2]..abc[3] : IsDigit(text[k])
            /\ abc[3] = Len(text) \/ ~IsDigit(text[abc[3] + 1])}

\* topic k of week w of the returned document
PlanTopic(w, k) == getMember(getMember(result, "weeks").v[w], "topics").v[k]

\* C14: the fallback composer succeeds for every text and never throws; for
\* the empty string, and any text with no token longer than 4 characters and
\* no chapter or page reference, the document holds the four fixed generic
\* topics.
C14_FallbackNeverThrows ==
    /\ fnpc # "thrown"
    /\ fnpc = "plan" => result.type = "object"
    /\ (/\ fnpc = "plan"
        /\ RefWords(RefCleaned(fileContent)) = {}
        /\ RefMatches(fileContent, Chars("chapter")) = {}
        /\ RefMatches(fileContent, Chars("page")) = {}) =>
           /\ getMember(PlanTopic(1, 1), "name") = JStr(Chars("Understanding Core Concepts"))
           /\ getMember(PlanTopic(1, 2), "name") = JStr(Chars("Applying Theory to Practice"))
           /\ getMember(PlanTopic(2, 1), "name") = JStr(Chars("Advanced Topic Exploration"))
           /\ getMember(PlanTopic(2, 2), "name") = JStr(Chars("Review and Self-Assessment"))
           /\ getMember(PlanTopic(1, 1), "description")
                  = JStr(Chars("Master the fundamental principles in your course material"))
           /\ getMember(PlanTopic(2, 2), "description")
                  = JStr(Chars("Test your understanding and identify areas for improvement"))

\* the empty file
C14_Witness ==
    /\ fnpc = "plan"
    /\ fileContent = <<>>
    /\ result.type = "object"
    /\ getMember(PlanTopic(1, 1), "name") = JStr(Chars("Understanding Core Concepts"))

\* C15: every fallback document has exactly two weeks, numbered 1 and 2 in
\* that order; week 1 holds topics 1 and 2 with estimatedHours 3 and 4, week 2
\* holds topics 3 and 4 with estimatedHours 4 and 5; weeks is never empty.
C15_TwoWeeks ==
    fnpc = "plan" =>
        LET weeks == getMember(result, "weeks")
            hours == << <<3, 4>>, <<4, 5>> >>
        IN  /\ weeks.type = "array"
            /\ Len(weeks.v) = 2
            /\ \A w \in 1..2 :
                   /\ getMember(weeks.v[w], "weekNumber") = JNum(w)
                   /\ getMember(weeks.v[w], "topics").type = "array"
                   /\ Len(getMember(weeks.v[w], "topics").v) = 2
                   /\ \A k \in 1..2 :
                          /\ getMember(PlanTopic(w, k), "name").v = topics[2 * (w - 1) + k].name
                          /\ getMember(PlanTopic(w, k), "description").v
                                 = topics[2 * (w - 1) + k].description
                          /\ getMember(PlanTopic(w, k), "estimatedHours") = JNum(hours[w][k])

\* a text with keywords: topic 4 is the second topic of week 2, 5 hours
C15_Witness ==
    /\ fnpc = "plan"
    /\ Len(keywords) >= 2
    /\ getMember(PlanTopic(2, 2), "name") = JStr(Chars("Review and Assessment"))
    /\ getMember(PlanTopic(2, 2), "estimatedHours") = JNum(5)

\* the up to 3 "Study <Keyword> concept" strings
RefStudyStrings ==
    [i \in 1..Min(3, Len(keywords)) |->
        Chars("Study ") \o RefCapitalized(keywords[i]) \o Chars(" concept")]

\* pool is merged without its repetitions, in the order of first occurrence
RefIsDedupOf(pool, merged) ==
    LET first(x) == CHOOSE i \in 1..Len(merged) :
                        merged[i] = x /\ \A j \in 1..(i - 1) : merged[j] # x
    IN  /\ Range(pool) = Range(merged)
        /\ \A i, j \in 1..Len(pool) : i < j => first(pool[i]) < first(pool[j])

\* C16: in the fallback path the reference pool is the deduplicated,
\* order-preserving merge of the chapter references, the page references and
\* up to 3 "Study <Keyword> concept" strings; resource i of every topic is
\* pool[i mod |pool|] when the pool is non-empty, and every topic's resources
\* is the fixed 3-item default list when the pool is empty, so every topic's
\* resources list is non-empty.
C16_ResourcesFromPool ==
    fnpc \in {"resources", "plan"} =>
        LET pool == references.studyReferences
        IN  /\ RefIsDedupOf(pool, references.chapters \o references.pages \o RefStudyStrings)
            /\ \A t \in 1..Len(topics) :
                   /\ Len(topics[t].resources) > 0
                   /\ IF pool # <<>>
                      THEN \A i \in 0..(Len(topics[t].resources) - 1) :
                               topics[t].resources[i + 1] = pool[(i % Len(pool)) + 1]
                      ELSE topics[t].resources =
                               <<Chars("Review course materials"), Chars("Create concept map"),
                                 Chars("Practice sample questions")>>

\* a repeated reference is merged once, and the pool is shorter than 2
C16_Witness ==
    /\ fnpc = "resources"
    /\ Len(references.pages) = 2
    /\ Len(references.studyReferences) = 1
    /\ topics[1].resources = <<references.pages[1], references.pages[1]>>

\* label followed by the digits of every match of the word, in order of
\* occurrence
RefExtracted(text, word, label) ==
    LET ms == RefMatches(text, word)
        at == ascending({m[1] : m \in ms})
        matchAt(a) == CHOOSE m \in ms : m[1] = a
    IN  [k \in 1..Len(at) |-> label \o SubSeq(text, matchAt(at[k])[2], matchAt(at[k])[3])]

\* C17: reference extraction yields, for each case-insensitive occurrence of
\* "chapter <digits>" in the text, the string "Chapter <digits>", and for each
\* occurrence of "page <digits>" the string "Page <digits>", in order of
\* occurrence and possibly empty; for the text "chapter 3 organic chemistry
\* reactions page 45 mechanisms" the references are ["Chapter 3","Page 45"].
C17_ReferencesExtracted ==
    fnpc \in {"references", "resources", "plan"} =>
        /\ references.chapters = RefExtracted(fileContent, Chars("chapter"), Chars("Chapter "))
        /\ references.pages = RefExtracted(fileContent, Chars("page"), Chars("Page "))
        /\ fileContent = ExampleText =>
               references.chapters \o references.pages = <<Chars("Chapter 3"), Chars("Page 45")>>

\* upper-case words and several whitespace characters before the digits
C17_Witness ==
    /\ fnpc = "references"
    /\ references.chapters = <<Chars("Chapter 7")>>
    /\ references.pages = <<Chars("Page 12")>>

-----------------------------------------------------------------------------
(* Properties of generateStudyPlan (Spec, LiveSpec) *)

\* the content of a generated text once an optional ```json ... ``` or
\* ``` ... ``` fence is stripped, stated on positions
RefContent(text) ==
    LET fences == {i \in 1..Len(text) : text[i].t = "fence"}
        jsonFences == {i \in fences : i < Len(text) /\ text[i + 1].t = "json"}
        inside(start) ==
            LET closing == {i \in fences : i >= start}
                stop == IF closing = {} THEN Len(text)
                        ELSE (CHOOSE i \in closing : \A j \in closing : i <= j) - 1
                solid == {i \in start..stop : text[i].t # "ws"}
            IN  IF solid = {} THEN <<>>
                ELSE SubSeq(text, CHOOSE i \in solid : \A j \in solid : i <= j,
                                  CHOOSE i \in solid : \A j \in solid : i >= j)
    IN  IF jsonFences # {}
        THEN inside((CHOOSE i \in jsonFences : \A j \in jsonFences : i <= j) + 2)
        ELSE IF fences # {}
             THEN inside((CHOOSE i \in fences : \A j \in fences : i <= j) + 1)
             ELSE text

\* the pipeline returned after a response that carried a generated text
ReturnedOnText == pc = "returned" /\ remote.kind = "response" /\ remote.gen = "text"

RefParsed == JSONparse(RefContent(remote.text))

\* the request threw, timed out, or answered text that does not parse as JSON
RemoteFailed ==
    \/ remote.kind \in {"error", "timeout"}
    \/ remote.kind = "response" /\ remote.gen = "text" /\ RefParsed.type = "SyntaxError"

\* C1: for every input text, when the remote plan request throws, times out,
\* or returns text that does not parse as JSON, generateStudyPlan returns
\* exactly the serialized document of the fallback composer for that text.
C1_FailureGivesFallback ==
    (pc = "returned" /\ RemoteFailed) =>
        /\ outcome = "Fallback"
        /\ result = fallbackResults[fileContent]

C1_Witness ==
    /\ ReturnedOnText
    /\ RefParsed.type = "SyntaxError"
    /\ fileContent = ExampleText
    /\ outcome = "Fallback"
    /\ getMember(result, "title") = JStr(Chars("Personalized Study Plan"))

\* C2: generateStudyPlan ends in Remote or Fallback with a serialized plan
\* whenever the file can be read; it throws only when reading the file fails,
\* never because of the remote model: the step taken when the request has
\* settled always returns.
C2_OutcomesAndThrows ==
    /\ [](/\ pc = "thrown" => ~fileOk /\ remote = NoRemote
          /\ fileOk => pc # "thrown"
          /\ pc = "returned" =>
                 /\ fileOk
                 /\ outcome \in {"Remote", "Fallback"}
                 /\ result.type = "object"
          /\ pc # "returned" => outcome = "none" /\ result = Undefined)
    /\ [][pc = "awaiting" => pc' = "returned"]_vars

C2_Witness ==
    /\ pc = "returned"
    /\ fileOk
    /\ remote.kind = "error"
    /\ outcome = "Fallback"

\* C3: every pipeline run eventually terminates in Remote or Fallback (or by
\* throwing on an unreadable file), even when the remote endpoint never answers.
C3_Terminates == <>(pc \in {"returned", "thrown"})

\* the schema invariants of a serialized document
SchemaOk(doc) ==
    LET weeks == getMember(doc, "weeks")
        quiz == getMember(doc, "quiz")
        topicOk(t) ==
            /\ t.type = "object"
            /\ getMember(t, "resources").type = "array"
            /\ Len(getMember(t, "resources").v) > 0
        weekOk(w) ==
            /\ w.type = "object"
            /\ getMember(w, "topics").type = "array"
            /\ \A i \in 1..Len(getMember(w, "topics").v) : topicOk(getMember(w, "topics").v[i])
        questionOk(q) ==
            /\ q.type = "object"
            /\ getMember(q, "options").type = "array"
            /\ Len(getMember(q, "options").v) = 4
            /\ getMember(q, "correctAnswer").type = "number"
            /\ getMember(q, "correctAnswer").v \in 0..3
    IN  /\ weeks.type = "array"
        /\ \A i \in 1..Len(weeks.v) : weekOk(weeks.v[i])
        /\ \/ quiz.type = "undefined"
           \/ /\ quiz.type = "object"
              /\ getMember(quiz, "questions").type = "array"
              /\ \A i \in 1..Len(getMember(quiz, "questions").v) :
                     questionOk(getMember(quiz, "questions").v[i])

\* C4: every document the pipeline returns, from the remote path or from the
\* fallback path, satisfies the schema invariants: every topic's resources is
\* non-empty, every quiz question has exactly 4 options with correctAnswer
\* indexing one of them, and weeks is a list of week plans.
C4_ReturnedDocumentsSatisfySchema == pc = "returned" => SchemaOk(result)

\* the parsed response is an object without title, description or weeks
LacksPlanField ==
    /\ RefParsed.type = "object"
    /\ \E f \in {"title", "description", "weeks"} : getMember(RefParsed, f).type = "undefined"

\* C5 as stated: a response that parses as JSON but lacks required plan fields
\* (for example {}) is treated as a remote failure and the fallback document
\* is returned.
C5_MissingFieldsFallBack ==
    (ReturnedOnText /\ LacksPlanField) =>
        /\ outcome = "Fallback"
        /\ result = fallbackResults[fileContent]

DefaultOf(f) ==
    CASE f = "title" -> JStr(Chars("Personalized Chemistry Study Plan"))
      [] f = "description" ->
             JStr(Chars("This study plan was generated based on your chemistry materials."))
      [] f = "weeks" -> JArr(<<>>)

\* C5 amended: a response that parses as JSON to an object lacking plan fields
\* is not a remote failure: the Remote document is returned with every missing
\* field set to its default; for {} that is the default title, the default
\* description, weeks [] and no quiz.
C5_MissingFieldsGetDefaults ==
    (ReturnedOnText /\ LacksPlanField) =>
        /\ outcome = "Remote"
        /\ \A f \in {"title", "description", "weeks"} :
               getMember(RefParsed, f).type = "undefined" => getMember(result, f) = DefaultOf(f)
        /\ RefParsed = JObj(<<>>) =>
               result = JObj(<< <<"title", DefaultOf("title")>>,
                                <<"description", DefaultOf("description")>>,
                                <<"weeks", DefaultOf("weeks")>> >>)

C5_Witness ==
    /\ ReturnedOnText
    /\ RefParsed = JObj(<<>>)
    /\ outcome = "Remote"
    /\ getMember(result, "weeks") = JArr(<<>>)

\* the value a field of the returned document has when the claim reads
\* "the parsed value, or the default when absent"
ParsedOrDefault(f) ==
    IF getMember(RefParsed, f).type = "undefined" THEN DefaultOf(f)
    ELSE getMember(RefParsed, f)

\* C6 as stated: whenever the fence-stripped generated text parses as JSON,
\* the returned document has the parsed title, description and weeks (defaults
\* when absent) and the parsed quiz when present, no quiz otherwise.
C6_ParsedOrDefaultWhenAbsent ==
    (ReturnedOnText /\ RefParsed.type # "SyntaxError") =>
        /\ outcome = "Remote"
        /\ \A f \in {"title", "description", "weeks"} : getMember(result, f) = ParsedOrDefault(f)
        /\ getMember(result, "quiz") = getMember(RefParsed, "quiz")

\* ToBoolean is false: undefined, null, the empty string, 0
RefFalsy(x) ==
    \/ x.type \in {"undefined", "null"}
    \/ x.type = "string" /\ x.v = <<>>
    \/ x.type = "number" /\ x.v = 0

\* ```json\n{"title":"X","weeks":[]}\n```
ExampleResponse ==
    << Tok("fence"), Tok("json"), Tok("ws"),
       Tok("lbrace"), Member("title", JStr(Chars("X"))), Tok("comma"),
       Member("weeks", JArr(<<>>)), Tok("rbrace"),
       Tok("ws"), Tok("fence") >>

\* C6 amended: whenever the fence-stripped generated text parses as JSON to a
\* value other than null, the Remote document is returned; its title,
\* description and weeks are the parsed values when these are truthy and the
\* defaults otherwise (absent, null, empty string, 0); its quiz is the parsed
\* quiz when truthy and is omitted otherwise.  A text that parses to null gives
\* the fallback document.  The fenced {"title":"X","weeks":[]} yields title X,
\* the default description, weeks [] and no quiz.
C6_ParsedOrDefaultWhenFalsy ==
    /\ (ReturnedOnText /\ RefParsed.type \notin {"SyntaxError", "null"}) =>
           /\ outcome = "Remote"
           /\ \A f \in {"title", "description", "weeks"} :
                  getMember(result, f) =
                      (IF RefFalsy(getMember(RefParsed, f)) THEN DefaultOf(f)
                       ELSE getMember(RefParsed, f))
           /\ getMember(result, "quiz") =
                  (IF RefFalsy(getMember(RefParsed, "quiz")) THEN Undefined
                   ELSE getMember(RefParsed, "quiz"))
           /\ \A i \in 1..Len(result.v) :
                  result.v[i][1] \in {"title", "description", "weeks", "quiz"}
    /\ (ReturnedOnText /\ RefParsed.type = "null") => outcome = "Fallback"
    /\ (ReturnedOnText /\ remote.text = ExampleResponse) =>
           result = JObj(<< <<"title", JStr(Chars("X"))>>,
                            <<"description", DefaultOf("description")>>,
                            <<"weeks", JArr(<<>>)>> >>)

C6_Witness ==
    /\ ReturnedOnText
    /\ remote.text = ExampleResponse
    /\ outcome = "Remote"
    /\ getMember(result, "title") = JStr(Chars("X"))
    /\ getMember(result, "quiz") = Undefined

-----------------------------------------------------------------------------
(* Properties of the routes (ApiSpec) *)

\* keys stored in only one of two Maps, or with different records
changedKeys(before, after) ==
    {k \in DOMAIN before \cup DOMAIN after :
        \/ k \notin DOMAIN before
        \/ k \notin DOMAIN after
        \/ before[k] # after[k]}

\* the record under k: the one stored before the step, or else the one it creates
recordOf(before, after, k) == IF k \in DOMAIN before THEN before[k] ELSE after[k]

\* a handler has taken a step; it has answered unless the status is still 0
HandlerStep == requests' # requests
Answered == HandlerStep /\ last'.status # 0

\* user owns course c when the step starts, or the step creates c for user
OwnsCourse(user, c) ==
    IF c \in DOMAIN courses THEN courses[c].userId = user
    ELSE c \in DOMAIN courses' /\ courses'[c].userId = user

CourseRoutes ==
    {"GET /api/courses/:id", "PUT /api/courses/:id", "DELETE /api/courses/:id",
     "GET /api/courses/:courseId/study-plans", "GET /api/courses/:courseId/materials",
     "POST /api/courses/:courseId/materials"}
StudyPlanRoutes ==
    {"GET /api/study-plans/:id", "PUT /api/study-plans/:id", "DELETE /api/study-plans/:id"}
MaterialRoutes ==
    {"GET /api/materials/:materialId/download", "DELETE /api/materials/:materialId"}

\* the resource the URL of the answered request names is not stored
AddressedMissing ==
    \/ last'.route \in CourseRoutes /\ last'.id \notin DOMAIN courses
    \/ last'.route \in StudyPlanRoutes /\ last'.id \notin DOMAIN studyPlans
    \/ last'.route \in MaterialRoutes /\ last'.id \notin DOMAIN materials

\* the resource the request names is stored (for POST /api/study-plans: the body
\* names a course) and the requester does not own the course it belongs to
AddressedNotOwned ==
    \/ /\ last'.route \in CourseRoutes /\ last'.id \in DOMAIN courses
       /\ ~OwnsCourse(last'.user, last'.id)
    \/ /\ last'.route \in StudyPlanRoutes /\ last'.id \in DOMAIN studyPlans
       /\ ~OwnsCourse(last'.user, studyPlans[last'.id].courseId)
    \/ /\ last'.route \in MaterialRoutes /\ last'.id \in DOMAIN materials
       /\ ~OwnsCourse(last'.user, materials[last'.id].courseId)
    \/ /\ last'.route = "POST /api/study-plans"
       /\ ~OwnsCourse(last'.user, last'.id)

\* every record the step creates, changes, deletes or returns belongs to a
\* course of the requester
ChangesAndReturnsOwnOnly ==
    /\ \A k \in changedKeys(courses, courses') : OwnsCourse(last'.user, k)
    /\ \A k \in changedKeys(materials, materials') :
          OwnsCourse(last'.user, recordOf(materials, materials', k).courseId)
    /\ \A k \in changedKeys(studyPlans, studyPlans') :
          OwnsCourse(last'.user, recordOf(studyPlans, studyPlans', k).courseId)
    /\ \A r \in last'.returned : OwnsCourse(last'.user, r[3])

\* C19: a request on a course, material or study plan changes or returns the
\* resource only when the requester is signed in and owns the course it
\* belongs to; a request without a session is answered 401, one naming a
\* resource that is not stored 404, one by a non-owner 403 (a malformed request,
\* answered 400, aside), and an answer of 401, 404 or 403 leaves the stored
\* courses, materials and study plans as they were
C19_OwnerOnly ==
    [][HandlerStep =>
        /\ (courses' # courses \/ materials' # materials \/ studyPlans' # studyPlans
            \/ last'.returned # {})
              => last'.user # NoUser /\ ChangesAndReturnsOwnOnly
        /\ Answered /\ last'.user = NoUser => last'.status = 401
        /\ Answered /\ last'.user # NoUser /\ last'.status # 400 /\ AddressedMissing
              => last'.status = 404
        /\ Answered /\ last'.user # NoUser /\ last'.status # 400 /\ AddressedNotOwned
              => last'.status = 403
        /\ last'.status \in {401, 404, 403}
              => UNCHANGED <<courses, materials, studyPlans>>]_vars

UploadRoute == "POST /api/courses/:courseId/materials"

\* the document the pipeline returns to upload u when its call settles as r: the parsed remote plan with
\* the default description for UploadResponse, the fallback of the file otherwise
RefUploadContent(u, r) ==
    IF r.kind = "response"
    THEN JObj(<< <<"title", JStr(Chars("X"))>>,
                 <<"description", JStr(DefaultDescription)>>,
                 <<"weeks", JArr(<<>>)>> >>)
    ELSE fallbackResults[u.text]

\* map after is map before with exactly one more record, under key k
OneMore(before, after, k) ==
    /\ k \notin DOMAIN before
    /\ DOMAIN after = DOMAIN before \cup {k}
    /\ \A j \in DOMAIN before : after[j] = before[j]

\* C20: an upload creates exactly one material, with the courseId of the target
\* course, when it passes the checks and suspends; when it answers 201 it has
\* created no further material and exactly one study plan, with that courseId,
\* isActive true and the document the pipeline returned as content; an upload
\* that answers with an error creates no study plan
C20_UploadCreatesOneOfEach ==
    [][(HandlerStep /\ last'.route = UploadRoute) =>
        /\ last'.status = 0 =>
              /\ \E u \in uploads' \ uploads :
                    /\ uploads' = uploads \cup {u}
                    /\ u.courseId = last'.id
                    /\ OneMore(materials, materials', u.materialId)
                    /\ materials'[u.materialId].courseId = last'.id
              /\ studyPlans' = studyPlans
        /\ last'.status = 201 =>
              /\ \E u \in uploads \ uploads' :
                    /\ uploads' = uploads \ {u}
                    /\ u.courseId = last'.id
                    /\ <<"material", u.materialId, u.courseId>> \in last'.returned
                    /\ studyPlans'[studyPlanIdCounter].content =
                          RefUploadContent(u, last'.remote)
              /\ materials' = materials
              /\ OneMore(studyPlans, studyPlans', studyPlanIdCounter)
              /\ <<"studyPlan", studyPlanIdCounter, last'.id>> \in last'.returned
              /\ studyPlans'[studyPlanIdCounter].courseId = last'.id
              /\ studyPlans'[studyPlanIdCounter].isActive = TRUE
        /\ last'.status \notin {0, 201} => studyPlans' = studyPlans]_vars

C20_Witness ==
    /\ last.route = UploadRoute
    /\ last.status = 201
    /\ \E m \in DOMAIN materials, p \in DOMAIN studyPlans :
          /\ {<<"material", m, last.id>>, <<"studyPlan", p, last.id>>} = last.returned
          /\ materials[m].courseId = last.id
          /\ studyPlans[p].courseId = last.id
          /\ studyPlans[p].isActive
          /\ studyPlans[p].content = fallbackResults[Chars("Acids")]

\* paths of the files of the upload request that takes this step: the file
\* multer has just stored, or the file of the suspended upload that resumes
StepUploadPaths ==
    (IF uploadCounter' # uploadCounter THEN {uploadCounter'} ELSE {})
    \cup {u.path : u \in uploads \ uploads'}

\* C21: an upload whose pipeline fails (the handler answers 500) persists no
\* study plan and leaves neither the uploaded file nor the material record
\* created earlier in the same request behind
C21_FailedUploadLeavesNothing ==
    [][(HandlerStep /\ last'.route = UploadRoute /\ last'.status = 500) =>
        /\ studyPlans' = studyPlans
        /\ StepUploadPaths \cap files' = {}
        /\ \A k \in DOMAIN materials' : materials'[k].path \notin StepUploadPaths]_vars

\* C22: a stored study plan keeps its content and its courseId in every step;
\* only its isActive may change
C22_PlanImmutable ==
    [][\A k \in DOMAIN studyPlans \cap DOMAIN studyPlans' :
          /\ studyPlans'[k].content = studyPlans[k].content
          /\ studyPlans'[k].courseId = studyPlans[k].courseId]_vars

\* C23: the upload whose request was aborted while its remote call was pending
\* creates no study plan when the call settles
C23_AbortedUploadPersistsNothing ==
    [][\A u \in uploads \ uploads' :
          (u.aborted /\ HandlerStep) => studyPlans' = studyPlans]_vars

\* the ids of the stored records and of the suspended uploads are below the
\* counters, and no two suspended uploads share a material id or a file
IdsHandedOutOnce ==
    /\ \A k \in DOMAIN materials : k < materialIdCounter
    /\ \A k \in DOMAIN studyPlans : k < studyPlanIdCounter
    /\ \A u \in uploads : u.materialId < materialIdCounter
    /\ \A u, v \in uploads : (u.materialId = v.materialId \/ u.path = v.path) => u = v

-----------------------------------------------------------------------------
(* The two generateStudyPlan variants on the fallback path (FnSpec) *)

\* the part of the Hugging Face variant's fallback document that the aimlapi
\* variant also builds: no videoRecommendations in a topic, no quiz
withoutVideosAndQuiz(doc) ==
    [title |-> doc.title,
     description |-> doc.description,
     weeks |-> [i \in 1..Len(doc.weeks) |->
                   [weekNumber |-> doc.weeks[i].weekNumber,
                    topics |-> [n \in 1..Len(doc.weeks[i].topics) |->
                        [name |-> doc.weeks[i].topics[n].name,
                         description |-> doc.weeks[i].topics[n].description,
                         estimatedHours |-> doc.weeks[i].topics[n].estimatedHours,
                         resources |-> doc.weeks[i].topics[n].resources]]]]]

\* C25 as stated: for the same text with the remote call failing, the aimlapi
\* variant and the Hugging Face variant return the same fallback document.
C25_SameFallbackDocument ==
    fnpc = "plan" => result = aimlapiFallbackResult(fileContent)

\* C25 amended: for the same text with the remote call failing, the two
\* variants agree on the title, the description, the week numbers and every
\* topic's name, description, estimatedHours and resources; the Hugging Face
\* variant's document has in addition videoRecommendations in every topic and
\* a quiz, so the two returned strings differ.
C25_FallbackDocumentsAgreeOnSharedFields ==
    fnpc = "plan" =>
        LET hf == fallbackDocument(keywords, topics)
        IN  /\ result = stringify(jsFallbackPlan(hf))
            /\ aimlapiFallbackResult(fileContent)
                   = stringify(jsAimlapiFallbackPlan(withoutVideosAndQuiz(hf)))
            /\ result # aimlapiFallbackResult(fileContent)

\* a text with at least four keywords has gone through the fallback path, so
\* both weeks have topics
C25_Witness ==
    /\ fnpc = "plan"
    /\ Len(keywords) >= 4
    /\ Len(fallbackDocument(keywords, topics).weeks[2].topics) > 0
    /\ aimlapiFallbackResult(fileContent) # TypeError


-----------------------------------------------------------------------------
(* Deleting a course, and what one user's requests do to another (ApiSpec) *)

\* C26: when DELETE /api/courses/:id answers success for course c, no material
\* and no study plan with courseId c remains in storage after the step
C26_DeleteCourseCascades ==
    [][(HandlerStep /\ last'.route = "DELETE /api/courses/:id" /\ last'.status = 200) =>
        /\ \A k \in DOMAIN materials' : materials'[k].courseId # last'.id
        /\ \A k \in DOMAIN studyPlans' : studyPlans'[k].courseId # last'.id]_vars


\* the body of GET /api/courses and of GET /api/study-plans for user b
CoursesReadBy(b) == [k \in getCoursesByUserId(b) |-> courses[k]]
StudyPlansReadBy(b) == [k \in getStudyPlansByUserId(b) |-> studyPlans[k]]

\* C27: a step of a handler serving a request of user A leaves the results of
\* GET /api/courses and GET /api/study-plans of every other user B as they
\* were, so no sequence of A's requests changes what B reads or owns
C27_OtherUsersUnaffected ==
    [][HandlerStep =>
        \A b \in Users :
            b # last'.user =>
                /\ CoursesReadBy(b)' = CoursesReadBy(b)
                /\ StudyPlansReadBy(b)' = StudyPlansReadBy(b)]_vars


-----------------------------------------------------------------------------
(* The upload directory and the stored records (ApiSpec) *)

\* C28: when an upload request has been answered, every file in the upload
\* directory is the path of exactly one material record and every material
\* record's path is a file in the directory
C28_FilesMatchMaterials ==
    [][(HandlerStep /\ last'.route = UploadRoute /\ last'.status # 0) =>
        /\ \A f \in files' :
              Cardinality({k \in DOMAIN materials' : materials'[k].path = f}) = 1
        /\ \A k \in DOMAIN materials' : materials'[k].path \in files']_vars

\* C29: a step of the upload handler persists a material or a study plan only
\* for a course that is stored when the step is taken, also when the course
\* was deleted while the upload was suspended; so an upload never makes a
\* stored record's courseId refer to a course that does not exist
C29_UploadPersistsForStoredCourseOnly ==
    [][(HandlerStep /\ last'.route = UploadRoute) =>
        /\ \A k \in changedKeys(materials, materials') \cap DOMAIN materials' :
              materials'[k].courseId \in DOMAIN courses'
        /\ \A k \in changedKeys(studyPlans, studyPlans') \cap DOMAIN studyPlans' :
              studyPlans'[k].courseId \in DOMAIN courses']_vars


-----------------------------------------------------------------------------
(* The ids of MemStorage (ApiSpec) *)

\* each record of the map is stored under its id, and no two records of the
\* map have the same id
KeyedById(map) ==
    /\ \A k \in DOMAIN map : map[k].id = k
    /\ \A j, k \in DOMAIN map : map[j].id = map[k].id => j = k

\* C30: in every reachable state every stored record's id is the key it is
\* stored under, no two stored records of one kind have the same id, and each
\* id counter is greater than every id handed out so far
C30_IdsAreKeys ==
    /\ KeyedById(courses)
    /\ KeyedById(materials)
    /\ KeyedById(studyPlans)
    /\ \A k \in DOMAIN courses : k < courseIdCounter
    /\ \A k \in DOMAIN materials : k < materialIdCounter
    /\ \A k \in DOMAIN studyPlans : k < studyPlanIdCounter

====
